---- MODULE Spec2Model ----
(***************************************************************************)
(* Model of the Run engine of ScriptifyBackEnd.                            *)
(*                                                                         *)
(* Spec        : the life of one Run: the create request                   *)
(*               (RunViewSet.create), the worker task                      *)
(*               (execute_script_task) driving the Facebook pipeline        *)
(*               skeleton, abort requests (RunViewSet.abort) and result     *)
(*               readers (RunViewSet.results), interleaved step by step.    *)
(*               WorkerSpec adds the worker's failures before its try       *)
(*               block and scripts that name no pipeline.                   *)
(* ScraperSpec : the Facebook collector: _async_main's city loop,           *)
(*               scrape_city, clear_items and the response handlers;        *)
(*               ScraperFairSpec schedules the coroutine fairly.            *)
(* RetrySpec   : one call of a retry wrapper.                              *)
(* OffersSpec  : one call of _parse_offers_response.                        *)
(* FetchSpec   : one run of fetch_min_prices_task; CancelSpec adds a        *)
(*               failing update and cancellation writes.                    *)
(* AnalyzerSpec: one run of the AI product analyzer pipeline.               *)
(* LogSpec     : one Run with its stream_logs readers; LogFairSpec          *)
(*               schedules the readers fairly.                              *)
(* FragSpec    : handle_photos and handle_details in both orders.           *)
(***************************************************************************)
EXTENDS Integers, Sequences, FiniteSets, TLC

VARIABLES
    \* ---- Run lifecycle (Spec) ----
    db,          \* the stored Run row (apps/scripts/models.py Run)
    file,        \* content of run.result_file, a sequence of JSON tokens
    committed,   \* history: the content of the last write that was completed
    cpc, cRun,   \* RunViewSet.create: position and its in-memory Run object
    apc, aRun,   \* RunViewSet.abort: position and its in-memory Run object
    aborts,      \* number of abort requests received so far
    revoked,     \* AsyncResult(...).revoke(terminate=True) has been sent
    wpc, wRun,   \* execute_script_task: position and its in-memory Run object
    wExc,        \* text of the exception caught by execute_script_task
    wTarget,     \* tokens the write in progress is dumping
    wRet,        \* where the worker continues after the write in progress
    session,     \* outcome of the pipeline's login check
    cityNo,      \* number of cities whose scrape_city has started
    ckpt,        \* number of ResultWriter.write calls begun by the pipeline
    readerGot,   \* what the last RunViewSet.results request obtained
    \* ---- Facebook collector (ScraperSpec) ----
    mpc,                  \* position in _async_main / scrape_city
    cityIdx,              \* index of the city being scraped (0: none yet)
    attempt,              \* retry_with_backoff_async: failed scrape_city calls
    api_buffer,           \* scraper.api_buffer: discovered candidates
    items_dict,           \* scraper.items_dict, in insertion order
    seen_links,           \* FacebookMarketplaceScraper.seen_links
    all_results,          \* FacebookMarketplaceScraper.all_results, by city
    city_scraped_count,   \* scrape_city local
    no_new_items_count,   \* scrape_city local
    pending,              \* entries of new_links the for loop has not reached
    feedLeft,             \* feed responses the city's page may still deliver
    lastDrain,            \* history: what the unit's latest clear_items call returned
    prevDrain,            \* history: what the unit's call before that returned
    drainState,           \* history: "none" | "clean" | "dirty" since that call
    cleanDrain,           \* history: nothing changed between those two calls
    \* ---- retry wrappers (RetrySpec) ----
    retry_pc,        \* "idle" | "loop" | "returned" | "raised"
    retry_wrapper,   \* which of the three wrappers is running
    retry_cfg,       \* attempts, backoff_base, backoff_max (milliseconds)
    retry_attempt,   \* the wrapper's local `attempt`
    retry_error,     \* the wrapper's local `error` (text of the last failure)
    retry_calls,     \* history: number of times func was invoked
    retry_last,      \* history: the last failed attempt and the wait it led to
    retry_result,    \* what the wrapper returned, or the exception that escaped
    \* ---- _parse_offers_response (OffersSpec) ----
    offers_pc,       \* "idle" | "parsed"
    offers_payload,  \* the payload handed to _parse_offers_response
    offers_parsed,   \* what _parse_offers_response returned for it
    \* ---- fetch_min_prices_task (FetchSpec) ----
    fetch_pc,        \* position in fetch_min_prices_task / fetch_single_asin_data
    task_row,        \* the MinPriceTask row as stored
    task_obj,        \* the worker's in-memory task_obj
    asins,           \* the ASIN values listed at lines 53-57
    fetch_idx,       \* idx of the for loop
    lookup_attempt,  \* retry_with_backoff's attempt for the lookup under way
    catalog_result,  \* fetch_single_asin_data's catalog_result
    pricing_result,  \* fetch_single_asin_data's pricing_result
    lookups,         \* history: calls made and outcomes for the current ASIN
    saved,           \* history: the min_listing_data updates, in order
    progress,        \* history: the processed_asins values stored, in order
    \* ---- analyzer pipeline (AnalyzerSpec) ----
    ana_pc,          \* position in start_processing / _process_products
    ana_products,    \* AIProductAnalyzer.products
    ana_idx,         \* the product _process_products is at (1-based)
    ana_groups,      \* AIProductAnalyzer.all_results, as positions in products
    ana_written,     \* what the last writer.write call stored
    ana_final,       \* the Run's final result
    ana_ok,          \* what start_processing returned ("none" before it has)
    ana_run,         \* the Run row execute_script_task stores at the end
    \* ---- log streaming (LogSpec) ----
    log_db,          \* the stored Run row: its status
    log_file,        \* run.logs_file: the number of lines written to it
    log_wpc,         \* position of execute_script_task
    log_revoked,     \* revoke(terminate=True) has been sent
    log_aborts,      \* number of abort requests received so far
    reader_pc,       \* per stream_logs task: none | queued | poll | stopped
    position,        \* per stream_logs task: its local `position`
    reader_start,    \* history: the position each reader started at
    channel,         \* history: the events sent on the channel run-<id>
    \* ---- fragment handlers in both orders (FragSpec) ----
    frag_pc,         \* "idle" | "deliver"
    frag_in,         \* the key and its photo and detail responses
    frag_pd,         \* items_dict where the photos arrive first
    frag_dp,         \* items_dict where the details arrive first
    frag_npd,        \* fragments delivered so far, photos first
    frag_ndp         \* fragments delivered so far, details first

lifeVars == <<db, file, committed, cpc, cRun, apc, aRun, aborts, revoked,
              wpc, wRun, wExc, wTarget, wRet, session, cityNo, ckpt, readerGot>>

scrVars == <<mpc, cityIdx, attempt, api_buffer, items_dict, seen_links,
             all_results, city_scraped_count, no_new_items_count, pending,
             feedLeft, lastDrain, prevDrain, drainState, cleanDrain>>

retryVars == <<retry_pc, retry_wrapper, retry_cfg, retry_attempt, retry_error,
               retry_calls, retry_last, retry_result>>

offersVars == <<offers_pc, offers_payload, offers_parsed>>

anaVars == <<ana_pc, ana_products, ana_idx, ana_groups, ana_written, ana_final,
             ana_ok, ana_run>>

logVars == <<log_db, log_file, log_wpc, log_revoked, log_aborts, reader_pc,
             position, reader_start, channel>>

fragVars == <<frag_pc, frag_in, frag_pd, frag_dp, frag_npd, frag_ndp>>

fetchVars == <<fetch_pc, task_row, task_obj, asins, fetch_idx, lookup_attempt,
               catalog_result, pricing_result, lookups, saved, progress>>

\* what the actions of one component leave alone
outsideLife == <<scrVars, retryVars, offersVars, fetchVars, anaVars, logVars,
                 fragVars>>
outsideScr == <<lifeVars, retryVars, offersVars, fetchVars, anaVars, logVars,
                fragVars>>
outsideRetry == <<lifeVars, scrVars, offersVars, fetchVars, anaVars, logVars,
                  fragVars>>
outsideOffers == <<lifeVars, scrVars, retryVars, fetchVars, anaVars, logVars,
                   fragVars>>
outsideFetch == <<lifeVars, scrVars, retryVars, offersVars, anaVars, logVars,
                  fragVars>>
outsideAna == <<lifeVars, scrVars, retryVars, offersVars, fetchVars, logVars,
                fragVars>>
outsideLog == <<lifeVars, scrVars, retryVars, offersVars, fetchVars, anaVars,
                fragVars>>
outsideFrag == <<lifeVars, scrVars, retryVars, offersVars, fetchVars,
                 anaVars, logVars>>

vars == <<lifeVars, scrVars, retryVars, offersVars, fetchVars, anaVars, logVars,
          fragVars>>

(***************************************************************************)
(* Bounds                                                                  *)
(***************************************************************************)
MaxAborts == 1
NumCities == 2
MaxCheckpoints == 2
MaxListings == 2
MaxFeed == 2
ListingsPerCity == 1
RetryAttempts == 2

(***************************************************************************)
(* The Run row                                                             *)
(***************************************************************************)
NULL == "null"
Now == "t"
TaskId == "task-1"

Terminal == {"SUCCESS", "FAILURE", "REVOKED"}

\* Run.is_finished
is_finished(run) == run.status \in Terminal

\* the row before Run.objects.create has run
NoRow ==
    [status |-> "ABSENT", started_at |-> NULL, finished_at |-> NULL,
     error_message |-> "", celery_task_id |-> NULL]

\* Run.objects.create(..., status='PENDING'): the field defaults of Run
NewRun ==
    [status |-> "PENDING", started_at |-> NULL, finished_at |-> NULL,
     error_message |-> "", celery_task_id |-> NULL]

(***************************************************************************)
(* The result file.  json.dump writes the document token by token; a       *)
(* reader parses whatever the file holds at the moment it reads.            *)
(***************************************************************************)
Unparsable == <<"unparsable">>
NotRead == <<"not read">>

\* json.dump(payload, f): the tokens of the document
Encode(payload) == <<"{">> \o payload \o <<"}">>

\* json.load(f): the payload of a complete document, an error otherwise
Parse(f) ==
    IF Len(f) >= 2 /\ f[1] = "{" /\ f[Len(f)] = "}"
    THEN SubSeq(f, 2, Len(f) - 1)
    ELSE Unparsable

\* the k-th snapshot the pipeline checkpoints (scraper.all_results)
Snapshot(k) == <<ToString(k)>>


(***************************************************************************)
(* RunViewSet.create                                                       *)
(***************************************************************************)
\* the except branch of create: the fields it sets before run.save()
CreateFailed(run) ==
    [run EXCEPT !.status = "FAILURE",
                !.error_message = "Task failed to start",
                !.finished_at = Now]

\* Run.objects.create, the two file saves and run.save()
Create_Run ==
    /\ cpc = "c_start"
    /\ db' = NewRun
    /\ cRun' = NewRun
    /\ file' = Encode(<<>>)
    /\ committed' = Encode(<<>>)
    /\ cpc' = "c_delay_task"
    /\ UNCHANGED <<apc, aRun, aborts, revoked, wpc, wRun, wExc, wTarget, wRet,
                   session, cityNo, ckpt, readerGot>>
    /\ UNCHANGED outsideLife

\* execute_script_task.delay(...) succeeds: the task is queued
Create_DelayTask ==
    /\ cpc = "c_delay_task"
    /\ wpc' = "w_queued"
    /\ cpc' = "c_delay_logs"
    /\ UNCHANGED <<db, file, committed, cRun, apc, aRun, aborts, revoked, wRun,
                   wExc, wTarget, wRet, session, cityNo, ckpt, readerGot>>
    /\ UNCHANGED outsideLife

\* execute_script_task.delay(...) raises: nothing is queued
Create_DelayTaskFails ==
    /\ cpc = "c_delay_task"
    /\ cRun' = CreateFailed(cRun)
    /\ db' = cRun'
    /\ cpc' = "c_done"
    /\ UNCHANGED <<file, committed, apc, aRun, aborts, revoked, wpc, wRun, wExc,
                   wTarget, wRet, session, cityNo, ckpt, readerGot>>
    /\ UNCHANGED outsideLife

\* stream_logs.delay(...) succeeds
Create_DelayLogs ==
    /\ cpc = "c_delay_logs"
    /\ cpc' = "c_set_task"
    /\ UNCHANGED <<db, file, committed, cRun, apc, aRun, aborts, revoked, wpc,
                   wRun, wExc, wTarget, wRet, session, cityNo, ckpt, readerGot>>
    /\ UNCHANGED outsideLife

\* stream_logs.delay(...) raises after the worker task was queued
Create_DelayLogsFails ==
    /\ cpc = "c_delay_logs"
    /\ cRun' = CreateFailed(cRun)
    /\ db' = cRun'
    /\ cpc' = "c_done"
    /\ UNCHANGED <<file, committed, apc, aRun, aborts, revoked, wpc, wRun, wExc,
                   wTarget, wRet, session, cityNo, ckpt, readerGot>>
    /\ UNCHANGED outsideLife

\* run.celery_task_id = task.id; run.save()
Create_SetTaskId ==
    /\ cpc = "c_set_task"
    /\ cRun' = [cRun EXCEPT !.celery_task_id = TaskId]
    /\ db' = cRun'
    /\ cpc' = "c_done"
    /\ UNCHANGED <<file, committed, apc, aRun, aborts, revoked, wpc, wRun, wExc,
                   wTarget, wRet, session, cityNo, ckpt, readerGot>>
    /\ UNCHANGED outsideLife

(***************************************************************************)
(* RunViewSet.abort                                                        *)
(***************************************************************************)
\* the fields abort sets before run.save()
AbortFields(run) == [run EXCEPT !.status = "REVOKED", !.finished_at = Now]

\* run = self.get_object(); a finished run is rejected with 400
Abort_Load ==
    /\ apc = "a_idle"
    /\ aborts < MaxAborts
    /\ db.status # "ABSENT"
    /\ aborts' = aborts + 1
    /\ aRun' = db
    /\ apc' = IF is_finished(db) THEN "a_idle" ELSE "a_revoke"
    /\ UNCHANGED <<db, file, committed, cpc, cRun, revoked, wpc, wRun, wExc,
                   wTarget, wRet, session, cityNo, ckpt, readerGot>>
    /\ UNCHANGED outsideLife

\* if run.celery_task_id: AsyncResult(...).revoke(terminate=True)
Abort_Revoke ==
    /\ apc = "a_revoke"
    /\ revoked' = (revoked \/ aRun.celery_task_id # NULL)
    /\ apc' = "a_save"
    /\ UNCHANGED <<db, file, committed, cpc, cRun, aRun, aborts, wpc, wRun, wExc,
                   wTarget, wRet, session, cityNo, ckpt, readerGot>>
    /\ UNCHANGED outsideLife

\* run.status = 'REVOKED'; run.finished_at = now; run.save()
Abort_Save ==
    /\ apc = "a_save"
    /\ aRun' = AbortFields(aRun)
    /\ db' = aRun'
    /\ apc' = "a_idle"
    /\ UNCHANGED <<file, committed, cpc, cRun, aborts, revoked, wpc, wRun, wExc,
                   wTarget, wRet, session, cityNo, ckpt, readerGot>>
    /\ UNCHANGED outsideLife

(***************************************************************************)
(* RunViewSet.results                                                      *)
(***************************************************************************)
\* json.load of the result file as it is at this moment
Results ==
    /\ db.status # "ABSENT"
    /\ readerGot' = Parse(file)
    /\ UNCHANGED <<db, file, committed, cpc, cRun, apc, aRun, aborts, revoked,
                   wpc, wRun, wExc, wTarget, wRet, session, cityNo, ckpt>>
    /\ UNCHANGED outsideLife

(***************************************************************************)
(* execute_script_task                                                     *)
(***************************************************************************)
\* run = Run.objects.select_related('script').get(id=run_id)
Task_Load ==
    /\ wpc = "w_queued"
    /\ wRun' = db
    /\ wpc' = "w_loaded"
    /\ UNCHANGED <<db, file, committed, cpc, cRun, apc, aRun, aborts, revoked,
                   wExc, wTarget, wRet, session, cityNo, ckpt, readerGot>>
    /\ UNCHANGED outsideLife

\* run.started_at = timezone.now(); run.save(); logger and writer set up
Task_StartedAt ==
    /\ wpc = "w_loaded"
    /\ wRun' = [wRun EXCEPT !.started_at = Now]
    /\ db' = wRun'
    /\ wpc' = "w_try"
    /\ UNCHANGED <<file, committed, cpc, cRun, apc, aRun, aborts, revoked, wExc,
                   wTarget, wRet, session, cityNo, ckpt, readerGot>>
    /\ UNCHANGED outsideLife

\* run.status = 'RECEIVED'; run.celery_task_id = self.request.id; run.save()
Task_Received ==
    /\ wpc = "w_try"
    /\ wRun' = [wRun EXCEPT !.status = "RECEIVED", !.celery_task_id = TaskId]
    /\ db' = wRun'
    /\ wpc' = "w_received"
    /\ UNCHANGED <<file, committed, cpc, cRun, apc, aRun, aborts, revoked, wExc,
                   wTarget, wRet, session, cityNo, ckpt, readerGot>>
    /\ UNCHANGED outsideLife

\* run.status = 'STARTED'; run.save()
Task_Started ==
    /\ wpc = "w_received"
    /\ wRun' = [wRun EXCEPT !.status = "STARTED"]
    /\ db' = wRun'
    /\ wpc' = "p_init"
    /\ UNCHANGED <<file, committed, cpc, cRun, apc, aRun, aborts, revoked, wExc,
                   wTarget, wRet, session, cityNo, ckpt, readerGot>>
    /\ UNCHANGED outsideLife

\* the fields the success path sets before run.save()
SuccessFields(run) == [run EXCEPT !.status = "SUCCESS", !.finished_at = Now]

\* faulty variant: the except branch records the error but not the status
FailureFieldsKeepStatus(run, e) ==
    [run EXCEPT !.error_message = e, !.finished_at = Now]

\* the fields the except branch sets before run.save()
FailureFields(run, e) ==
    [run EXCEPT !.status = "FAILURE", !.error_message = e, !.finished_at = Now]

\* run.status = 'SUCCESS'; run.finished_at = now; run.save(); return
Task_Success ==
    /\ wpc = "w_written"
    /\ wRun' = SuccessFields(wRun)
    /\ db' = wRun'
    /\ wpc' = "w_done"
    /\ UNCHANGED <<file, committed, cpc, cRun, apc, aRun, aborts, revoked, wExc,
                   wTarget, wRet, session, cityNo, ckpt, readerGot>>
    /\ UNCHANGED outsideLife

\* except Exception as e: FAILURE, error_message, finished_at, save, raise
Task_Except ==
    /\ wpc = "w_except"
    /\ wRun' = FailureFields(wRun, wExc)
    /\ db' = wRun'
    /\ wpc' = "w_raised"
    /\ UNCHANGED <<file, committed, cpc, cRun, apc, aRun, aborts, revoked, wExc,
                   wTarget, wRet, session, cityNo, ckpt, readerGot>>
    /\ UNCHANGED outsideLife

\* Run.objects.select_related('script').get(id=run_id) or Script.objects.get
\* raises (lines 19-20, before the try of line 35): nothing catches it, the
\* task ends with the exception and the row is left as it was
Task_LoadRaises ==
    /\ wpc = "w_queued"
    /\ wpc' = "w_raised"
    /\ UNCHANGED <<db, file, committed, cpc, cRun, apc, aRun, aborts, revoked,
                   wRun, wExc, wTarget, wRet, session, cityNo, ckpt, readerGot>>
    /\ UNCHANGED outsideLife

\* started_at is saved, then get_run_logger, stream_logs.delay or
\* ResultWriter raises (lines 22-33, before the try): the task ends with the
\* exception
Task_SetupRaises ==
    /\ wpc = "w_loaded"
    /\ wRun' = [wRun EXCEPT !.started_at = Now]
    /\ db' = wRun'
    /\ wpc' = "w_raised"
    /\ UNCHANGED <<file, committed, cpc, cRun, apc, aRun, aborts, revoked, wExc,
                   wTarget, wRet, session, cityNo, ckpt, readerGot>>
    /\ UNCHANGED outsideLife

\* json.dump(None, f): the document of a result that no pipeline set
JsonNull == <<"null">>

\* lines 47-58 for a script whose celery_task is none of the three names of
\* the if/elif chain: no branch runs, result stays None and is written out
Task_NoPipeline ==
    /\ wpc = "p_init"
    /\ wTarget' = JsonNull
    /\ wRet' = "w_written"
    /\ wpc' = "wr_open"
    /\ UNCHANGED <<db, file, committed, cpc, cRun, apc, aRun, aborts, revoked,
                   wRun, wExc, session, cityNo, ckpt, readerGot>>
    /\ UNCHANGED outsideLife

\* the task is over: returned, re-raised, or its process was terminated
TaskOver == {"w_done", "w_raised", "w_killed"}

\* revoke(terminate=True): the worker discards the queued task or its child
\* process is terminated, wherever it is; the signal may also come too late
Task_Killed ==
    /\ revoked
    /\ wpc \notin TaskOver \cup {"w_none"}
    /\ wpc' = "w_killed"
    /\ UNCHANGED <<db, file, committed, cpc, cRun, apc, aRun, aborts, revoked,
                   wRun, wExc, wTarget, wRet, session, cityNo, ckpt, readerGot>>
    /\ UNCHANGED outsideLife

(***************************************************************************)
(* Writing the result file: ResultWriter.write and the final write of      *)
(* execute_script_task both open(path, "w") and json.dump into it.         *)
(***************************************************************************)
\* open(result_path, "w"): the file is truncated
Write_Open ==
    /\ wpc = "wr_open"
    /\ file' = <<>>
    /\ wpc' = "wr_dump"
    /\ UNCHANGED <<db, committed, cpc, cRun, apc, aRun, aborts, revoked, wRun,
                   wExc, wTarget, wRet, session, cityNo, ckpt, readerGot>>
    /\ UNCHANGED outsideLife

\* json.dump: the next token reaches the file; the last one ends the write
Write_Dump ==
    /\ wpc = "wr_dump"
    /\ file' = Append(file, wTarget[Len(file) + 1])
    /\ IF Len(file') = Len(wTarget)
       THEN wpc' = wRet /\ committed' = wTarget
       ELSE wpc' = wpc /\ committed' = committed
    /\ UNCHANGED <<db, cpc, cRun, apc, aRun, aborts, revoked, wRun, wExc,
                   wTarget, wRet, session, cityNo, ckpt, readerGot>>
    /\ UNCHANGED outsideLife

(***************************************************************************)
(* The pipeline as execute_script_task sees it: the Facebook scraper's     *)
(* constructor, login check, city loop and checkpoints.                    *)
(***************************************************************************)
InitErrors == {"No cities provided", "No search query provided"}
CookiesExpired == "Cookies expired. Contact with your Technical support!"
NoCookies == "No cookies found or cookies expired.  Contact with your Technical support!"
PageError == "Target page, context or browser has been closed"

\* scraper.all_results as last checkpointed
AllResults == IF ckpt = 0 THEN <<>> ELSE Snapshot(ckpt)

\* FacebookMarketplaceScraper.__init__ accepts the input
Pipeline_Init ==
    /\ wpc = "p_init"
    /\ wpc' = "p_login"
    /\ UNCHANGED <<db, file, committed, cpc, cRun, apc, aRun, aborts, revoked,
                   wRun, wExc, wTarget, wRet, session, cityNo, ckpt, readerGot>>
    /\ UNCHANGED outsideLife

\* FacebookMarketplaceScraper.__init__ raises ValueError
Pipeline_InitRaises ==
    /\ wpc = "p_init"
    /\ \E e \in InitErrors : wExc' = e
    /\ wpc' = "w_except"
    /\ UNCHANGED <<db, file, committed, cpc, cRun, apc, aRun, aborts, revoked,
                   wRun, wTarget, wRet, session, cityNo, ckpt, readerGot>>
    /\ UNCHANGED outsideLife

\* the exception _async_main raises for a login outcome
LoginError(s) == IF s = "expired" THEN CookiesExpired ELSE NoCookies

\* faulty variant: an invalid session is only logged and the city loop runs
LoginNextContinues(s) == "p_cities"

\* where _async_main goes after the login check: on, or out by the raise
LoginNext(s) == IF s = "valid" THEN "p_cities" ELSE "w_except"

\* _async_main: load_cookies and is_logged_in; an invalid session raises
Pipeline_Login ==
    /\ wpc = "p_login"
    /\ \E s \in {"valid", "no_cookies", "expired"} :
         /\ session' = s
         /\ wpc' = LoginNext(s)
         /\ wExc' = IF s = "valid" THEN wExc ELSE LoginError(s)
    /\ UNCHANGED <<db, file, committed, cpc, cRun, apc, aRun, aborts, revoked,
                   wRun, wTarget, wRet, cityNo, ckpt, readerGot>>
    /\ UNCHANGED outsideLife

\* the next city: scrape_city stores an empty list for it and checkpoints
Pipeline_StartCity ==
    /\ wpc = "p_cities"
    /\ cityNo < NumCities
    /\ cityNo' = cityNo + 1
    /\ ckpt' = ckpt + 1
    /\ wTarget' = Encode(Snapshot(ckpt'))
    /\ wRet' = "p_cities"
    /\ wpc' = "wr_open"
    /\ UNCHANGED <<db, file, committed, cpc, cRun, apc, aRun, aborts, revoked,
                   wRun, wExc, session, readerGot>>
    /\ UNCHANGED outsideLife

\* the next city cannot be loaded (page.goto raises): logged, continue
Pipeline_SkipCity ==
    /\ wpc = "p_cities"
    /\ cityNo < NumCities
    /\ cityNo' = cityNo + 1
    /\ UNCHANGED <<db, file, committed, cpc, cRun, apc, aRun, aborts, revoked,
                   wpc, wRun, wExc, wTarget, wRet, session, ckpt, readerGot>>
    /\ UNCHANGED outsideLife

\* scrape_city flushes complete records: all_results[city] = ...; writer.write
Pipeline_Flush ==
    /\ wpc = "p_cities"
    /\ ckpt >= 1
    /\ ckpt < MaxCheckpoints
    /\ ckpt' = ckpt + 1
    /\ wTarget' = Encode(Snapshot(ckpt'))
    /\ wRet' = "p_cities"
    /\ wpc' = "wr_open"
    /\ UNCHANGED <<db, file, committed, cpc, cRun, apc, aRun, aborts, revoked,
                   wRun, wExc, session, cityNo, readerGot>>
    /\ UNCHANGED outsideLife

\* page.close() / context.new_page() between cities raises
Pipeline_Raises ==
    /\ wpc = "p_cities"
    /\ cityNo < NumCities
    /\ wExc' = PageError
    /\ wpc' = "w_except"
    /\ UNCHANGED <<db, file, committed, cpc, cRun, apc, aRun, aborts, revoked,
                   wRun, wTarget, wRet, session, cityNo, ckpt, readerGot>>
    /\ UNCHANGED outsideLife

\* start_scraping returns all_results; execute_script_task writes it out
Pipeline_Return ==
    /\ wpc = "p_cities"
    /\ cityNo = NumCities
    /\ wTarget' = Encode(AllResults)
    /\ wRet' = "w_written"
    /\ wpc' = "wr_open"
    /\ UNCHANGED <<db, file, committed, cpc, cRun, apc, aRun, aborts, revoked,
                   wRun, wExc, session, cityNo, ckpt, readerGot>>
    /\ UNCHANGED outsideLife

(***************************************************************************)
(* The Facebook collector: extractors and clear_items                      *)
(***************************************************************************)
MAX_NO_NEW_ITEMS_ATTEMPTS == 3

ListingIds == 1 .. MaxListings
Cities == 1 .. NumCities

\* Python's None, and a key that a payload does not carry
PyNone == "None"
AbsentKey == "absent"

\* the listing ID as the feed and the detail payloads carry it
IdStr(i) == ToString(i)

\* f"https://www.facebook.com/marketplace/item/{item_id}/"
ItemUrl(i) == "https://www.facebook.com/marketplace/item/" \o IdStr(i) \o "/"

\* extract_products_from_html / _graphql: a candidate as scrape_city reads it
Product(i) == [id |-> i, processed |-> FALSE]

\* the record scrape_city stores for a candidate before its details arrive
EmptyItem(i) ==
    [id |-> i, link |-> "", title |-> "", description |-> "", price |-> "",
     image_urls |-> <<>>]

\* a detail response: product type, title, description text, price amount
Payload(type, title, text, amount) ==
    [type |-> type, title |-> title, text |-> text, amount |-> amount]

\* detail responses: a full one, one without a price amount, one with
\* neither title nor price (amount: null), and one that is not for sale
DetailPayloads ==
    {Payload("FOR_SALE_ITEM", "Canon", "", "25"),
     Payload("FOR_SALE_ITEM", "Canon", "", AbsentKey),
     Payload("FOR_SALE_ITEM", "", "", PyNone),
     Payload("RENTAL", "Canon", "", "25")}

\* photo responses: the listing_photos uris
PhotoPayloads == {<<>>, <<"photo.jpg">>}

\* extract_details returns None unless the page is a FOR_SALE_ITEM
HasDetails(payload) == payload.type = "FOR_SALE_ITEM"

\* extract_details: the fields of a FOR_SALE_ITEM payload
ExtractDetails(payload) ==
    [link |-> "",
     title |-> payload.title,
     description |-> payload.text \o "\nAttributes:\n",
     price |-> IF payload.amount = AbsentKey THEN "" ELSE payload.amount]

\* handle_details: items_dict[item_id].update(details), then the link
UpdateDetails(item, details) ==
    [item EXCEPT !.title = details.title,
                 !.description = details.description,
                 !.price = details.price,
                 !.link = ItemUrl(item.id)]

\* the filter of clear_items
IsComplete(item) ==
    /\ item.link # ""
    /\ item.title # ""
    /\ item.description # ""
    /\ item.price # PyNone
    /\ item.image_urls # <<>>

\* clear_items adds the link of every complete item to seen_links
SeenAfter(items, seen) ==
    seen \cup {items[k].link : k \in {j \in 1 .. Len(items) : IsComplete(items[j])}}

\* faulty variant: clear_items returns only the items not yet in seen_links
ClearItemsOnlyUnseen(items, seen) ==
    LET fresh(item) == IsComplete(item) /\ item.link \notin seen
        complete == SelectSeq(items, fresh)
    IN  [k \in 1 .. Len(complete) |-> [complete[k] EXCEPT !.id = k]]

\* clear_items: a copy of every complete item, renumbered from 1
ClearItems(items, seen) ==
    LET complete == SelectSeq(items, IsComplete)
    IN  [k \in 1 .. Len(complete) |-> [complete[k] EXCEPT !.id = k]]

\* scrape_city: if link_id in seen_links
IsDuplicate(link_id, seen) == IdStr(link_id) \in seen

\* items_dict as a list of records in insertion order
HasKey(d, i) == \E k \in 1 .. Len(d) : d[k].id = i
KeyIndex(d, i) == CHOOSE k \in 1 .. Len(d) : d[k].id = i

\* items_dict[link_id] = {...}: replaces the entry of a known key in place
PutItem(d, item) ==
    IF HasKey(d, item.id)
    THEN [d EXCEPT ![KeyIndex(d, item.id)] = item]
    ELSE Append(d, item)

\* faulty variant: the detail fragment also resets the photos of the record
HandleDetailsResetsPhotos(d, i, payload) ==
    IF ~HasKey(d, i) \/ ~HasDetails(payload)
    THEN d
    ELSE [d EXCEPT ![KeyIndex(d, i)] =
             [UpdateDetails(@, ExtractDetails(payload)) EXCEPT !.image_urls = <<>>]]

\* handle_details on items_dict d: nothing for an unknown key or a payload
\* without details, otherwise the details are merged into the record
HandleDetails(d, i, payload) ==
    IF ~HasKey(d, i) \/ ~HasDetails(payload)
    THEN d
    ELSE [d EXCEPT ![KeyIndex(d, i)] = UpdateDetails(@, ExtractDetails(payload))]

\* handle_photos on items_dict d: nothing for an unknown key or an empty
\* photo list, otherwise the photos replace image_urls
HandlePhotos(d, i, photos) ==
    IF ~HasKey(d, i) \/ photos = <<>>
    THEN d
    ELSE [d EXCEPT ![KeyIndex(d, i)].image_urls = photos]

\* faulty variant: the unit stops one empty discovery later
StallCeilingPassed(n) == n > MAX_NO_NEW_ITEMS_ATTEMPTS

\* if no_new_items_count >= MAX_NO_NEW_ITEMS_ATTEMPTS
StallCeilingReached(n) == n >= MAX_NO_NEW_ITEMS_ATTEMPTS

\* new_links = [link for link in api_buffer if not link.get('processed')]
IsUnprocessed(link) == ~link.processed
Unprocessed(buf) == SelectSeq(buf, IsUnprocessed)

\* the entry the for loop over new_links reaches next
NextLink(buf) ==
    CHOOSE k \in 1 .. Len(buf) :
        /\ ~buf[k].processed
        /\ \A j \in 1 .. (k - 1) : buf[j].processed

\* faulty variant: the link is left unprocessed
MarkNothing(buf, k) == buf

\* link['processed'] = True
MarkProcessed(buf, k) == [buf EXCEPT ![k].processed = TRUE]

\* the awaits of scrape_city at which the page's response handlers run
HandlerPoints == {"s_start", "s_scroll", "s_for", "s_final"}

\* a fragment or a re-initialisation changed items_dict since the last drain
Touched(st) == IF st = "none" THEN "none" ELSE "dirty"

(***************************************************************************)
(* Response handlers (setup_response_handlers)                             *)
(***************************************************************************)
\* handle_initial_html / handle_graphql_scroll: api_buffer.extend(new)
Handle_Feed ==
    /\ mpc \in HandlerPoints
    /\ feedLeft > 0
    /\ \E i \in ListingIds : api_buffer' = Append(api_buffer, Product(i))
    /\ feedLeft' = feedLeft - 1
    /\ UNCHANGED <<mpc, cityIdx, attempt, items_dict, seen_links, all_results,
                   city_scraped_count, no_new_items_count, pending, lastDrain,
                   prevDrain, drainState, cleanDrain>>
    /\ UNCHANGED outsideScr

\* handle_photos: the photos of a known item replace its image_urls
Handle_Photos ==
    /\ mpc \in HandlerPoints
    /\ \E i \in ListingIds, photos \in PhotoPayloads :
         /\ HasKey(items_dict, i)
         /\ photos # <<>>
         /\ items_dict' = HandlePhotos(items_dict, i, photos)
    /\ drainState' = Touched(drainState)
    /\ UNCHANGED <<mpc, cityIdx, attempt, api_buffer, seen_links, all_results,
                   city_scraped_count, no_new_items_count, pending, feedLeft,
                   lastDrain, prevDrain, cleanDrain>>
    /\ UNCHANGED outsideScr

\* handle_details: the details of a known item are merged into its record
Handle_Details ==
    /\ mpc \in HandlerPoints
    /\ \E i \in ListingIds, payload \in DetailPayloads :
         /\ HasKey(items_dict, i)
         /\ HasDetails(payload)
         /\ items_dict' = HandleDetails(items_dict, i, payload)
    /\ drainState' = Touched(drainState)
    /\ UNCHANGED <<mpc, cityIdx, attempt, api_buffer, seen_links, all_results,
                   city_scraped_count, no_new_items_count, pending, feedLeft,
                   lastDrain, prevDrain, cleanDrain>>
    /\ UNCHANGED outsideScr

(***************************************************************************)
(* FacebookMarketplaceScraper._async_main: the city loop                   *)
(***************************************************************************)
\* next city: new page, handlers set up, page.goto, scrape_city is called
Main_NextCity ==
    /\ mpc = "m_next_city"
    /\ cityIdx < NumCities
    /\ cityIdx' = cityIdx + 1
    /\ attempt' = 0
    /\ feedLeft' = MaxFeed
    /\ mpc' = "s_start"
    /\ lastDrain' = <<>>
    /\ prevDrain' = <<>>
    /\ drainState' = "none"
    /\ cleanDrain' = FALSE
    /\ UNCHANGED <<api_buffer, items_dict, seen_links, all_results,
                   city_scraped_count, no_new_items_count, pending>>
    /\ UNCHANGED outsideScr

\* next city, but page.goto raises: logged, continue
Main_GotoFails ==
    /\ mpc = "m_next_city"
    /\ cityIdx < NumCities
    /\ cityIdx' = cityIdx + 1
    /\ UNCHANGED <<mpc, attempt, api_buffer, items_dict, seen_links,
                   all_results, city_scraped_count, no_new_items_count,
                   pending, feedLeft, lastDrain, prevDrain, drainState,
                   cleanDrain>>
    /\ UNCHANGED outsideScr

\* all cities done: final summary, browser.close()
Main_Done ==
    /\ mpc = "m_next_city"
    /\ cityIdx = NumCities
    /\ mpc' = "m_done"
    /\ UNCHANGED <<cityIdx, attempt, api_buffer, items_dict, seen_links,
                   all_results, city_scraped_count, no_new_items_count,
                   pending, feedLeft, lastDrain, prevDrain, drainState,
                   cleanDrain>>
    /\ UNCHANGED outsideScr

(***************************************************************************)
(* scrape_city                                                             *)
(***************************************************************************)
\* counters reset, all_results[city] = [], writer.write(all_results)
Scrape_Start ==
    /\ mpc = "s_start"
    /\ city_scraped_count' = 0
    /\ no_new_items_count' = 0
    /\ all_results' = [all_results EXCEPT ![cityIdx] = <<>>]
    /\ mpc' = "s_loop"
    /\ UNCHANGED <<cityIdx, attempt, api_buffer, items_dict, seen_links,
                   pending, feedLeft, lastDrain, prevDrain, drainState,
                   cleanDrain>>
    /\ UNCHANGED outsideScr

\* while city_scraped_count < listings_per_city: the target is reached
Scrape_TargetReached ==
    /\ mpc = "s_loop"
    /\ city_scraped_count >= ListingsPerCity
    /\ mpc' = "s_final"
    /\ UNCHANGED <<cityIdx, attempt, api_buffer, items_dict, seen_links,
                   all_results, city_scraped_count, no_new_items_count,
                   pending, feedLeft, lastDrain, prevDrain, drainState,
                   cleanDrain>>
    /\ UNCHANGED outsideScr

\* no unprocessed candidate: count the stall, stop at the ceiling or scroll
Scrape_NoNewLinks ==
    /\ mpc = "s_loop"
    /\ city_scraped_count < ListingsPerCity
    /\ Unprocessed(api_buffer) = <<>>
    /\ no_new_items_count' = no_new_items_count + 1
    /\ mpc' = IF StallCeilingReached(no_new_items_count')
              THEN "s_final" ELSE "s_scroll"
    /\ UNCHANGED <<cityIdx, attempt, api_buffer, items_dict, seen_links,
                   all_results, city_scraped_count, pending, feedLeft,
                   lastDrain, prevDrain, drainState, cleanDrain>>
    /\ UNCHANGED outsideScr

\* unprocessed candidates found: the stall counter is reset, the for loop starts
Scrape_FoundLinks ==
    /\ mpc = "s_loop"
    /\ city_scraped_count < ListingsPerCity
    /\ Unprocessed(api_buffer) # <<>>
    /\ no_new_items_count' = 0
    /\ pending' = Len(Unprocessed(api_buffer))
    /\ mpc' = "s_for"
    /\ UNCHANGED <<cityIdx, attempt, api_buffer, items_dict, seen_links,
                   all_results, city_scraped_count, feedLeft, lastDrain,
                   prevDrain, drainState, cleanDrain>>
    /\ UNCHANGED outsideScr

\* scroll_to_bottom and the sleep after it, then continue
Scrape_ScrollOk ==
    /\ mpc = "s_scroll"
    /\ mpc' = "s_loop"
    /\ UNCHANGED <<cityIdx, attempt, api_buffer, items_dict, seen_links,
                   all_results, city_scraped_count, no_new_items_count,
                   pending, feedLeft, lastDrain, prevDrain, drainState,
                   cleanDrain>>
    /\ UNCHANGED outsideScr

\* faulty variant: the exception raised after the last attempt leaves
\* _async_main
AfterRaiseFailsRun(att) == IF att < RetryAttempts THEN "s_start" ELSE "m_failed"

\* retry_with_backoff_async calls scrape_city again while attempts are left;
\* after the last one it returns the error, _async_main raises inside its
\* try, logs in the except branch and continues with the next city
AfterRaise(att) == IF att < RetryAttempts THEN "s_start" ELSE "m_next_city"

\* scroll_to_bottom raises out of scrape_city: retry_with_backoff_async calls
\* scrape_city again, or gives up and _async_main goes on to the next city
Scrape_ScrollFails ==
    /\ mpc = "s_scroll"
    /\ attempt' = attempt + 1
    /\ mpc' = AfterRaise(attempt')
    /\ UNCHANGED <<cityIdx, api_buffer, items_dict, seen_links, all_results,
                   city_scraped_count, no_new_items_count, pending, feedLeft,
                   lastDrain, prevDrain, drainState, cleanDrain>>
    /\ UNCHANGED outsideScr

\* the for loop is through: api_buffer keeps only the unprocessed entries
Scrape_ForEnd ==
    /\ mpc = "s_for"
    /\ pending = 0
    /\ api_buffer' = Unprocessed(api_buffer)
    /\ mpc' = "s_loop"
    /\ UNCHANGED <<cityIdx, attempt, items_dict, seen_links, all_results,
                   city_scraped_count, no_new_items_count, pending, feedLeft,
                   lastDrain, prevDrain, drainState, cleanDrain>>
    /\ UNCHANGED outsideScr

\* the next link is marked processed, the target is reached: break
Scrape_ForBreak ==
    /\ mpc = "s_for"
    /\ pending > 0
    /\ city_scraped_count >= ListingsPerCity
    /\ api_buffer' = Unprocessed(MarkProcessed(api_buffer, NextLink(api_buffer)))
    /\ pending' = 0
    /\ mpc' = "s_loop"
    /\ UNCHANGED <<cityIdx, attempt, items_dict, seen_links, all_results,
                   city_scraped_count, no_new_items_count, feedLeft,
                   lastDrain, prevDrain, drainState, cleanDrain>>
    /\ UNCHANGED outsideScr

\* the next link is marked processed, its element is not found or not stable
Scrape_SkipLink ==
    /\ mpc = "s_for"
    /\ pending > 0
    /\ city_scraped_count < ListingsPerCity
    /\ api_buffer' = MarkProcessed(api_buffer, NextLink(api_buffer))
    /\ pending' = pending - 1
    /\ UNCHANGED <<mpc, cityIdx, attempt, items_dict, seen_links, all_results,
                   city_scraped_count, no_new_items_count, feedLeft,
                   lastDrain, prevDrain, drainState, cleanDrain>>
    /\ UNCHANGED outsideScr

\* the next link is marked processed and found: a duplicate is skipped;
\* otherwise the complete items are flushed, the link gets an empty record
\* and is dragged
Scrape_ProcessLink ==
    /\ mpc = "s_for"
    /\ pending > 0
    /\ city_scraped_count < ListingsPerCity
    /\ LET link_id == api_buffer[NextLink(api_buffer)].id
           items_to_add == ClearItems(items_dict, seen_links)
       IN  /\ api_buffer' = MarkProcessed(api_buffer, NextLink(api_buffer))
           /\ pending' = pending - 1
           /\ IF IsDuplicate(link_id, seen_links)
              THEN UNCHANGED <<items_dict, seen_links, all_results,
                               city_scraped_count, lastDrain, prevDrain,
                               drainState, cleanDrain>>
              ELSE /\ seen_links' = SeenAfter(items_dict, seen_links)
                   /\ city_scraped_count' = Len(items_to_add)
                   /\ all_results' =
                        IF items_to_add # <<>>
                        THEN [all_results EXCEPT ![cityIdx] = items_to_add]
                        ELSE all_results
                   /\ items_dict' = PutItem(items_dict, EmptyItem(link_id))
                   /\ prevDrain' = lastDrain
                   /\ lastDrain' = items_to_add
                   /\ cleanDrain' = (drainState = "clean")
                   /\ drainState' = IF HasKey(items_dict, link_id)
                                    THEN "dirty" ELSE "clean"
    /\ UNCHANGED <<mpc, cityIdx, attempt, no_new_items_count, feedLeft>>
    /\ UNCHANGED outsideScr

\* final wait, last flush, items_dict.clear(), api_buffer.clear(), return
Scrape_Final ==
    /\ mpc = "s_final"
    /\ LET items_to_add == ClearItems(items_dict, seen_links)
       IN  /\ seen_links' = SeenAfter(items_dict, seen_links)
           /\ all_results' =
                IF items_to_add # <<>>
                THEN [all_results EXCEPT ![cityIdx] = items_to_add]
                ELSE all_results
           /\ prevDrain' = lastDrain
           /\ lastDrain' = items_to_add
    /\ cleanDrain' = (drainState = "clean")
    /\ drainState' = "none"
    /\ items_dict' = <<>>
    /\ api_buffer' = <<>>
    /\ mpc' = "m_next_city"
    /\ UNCHANGED <<cityIdx, attempt, city_scraped_count, no_new_items_count,
                   pending, feedLeft>>
    /\ UNCHANGED outsideScr

(***************************************************************************)
(* Retry wrappers: sp_api_utils.retry_with_backoff,                        *)
(* facebook_scraper.retry_with_backoff_async and                           *)
(* ai_product_analyzer.retry_with_backoff.  Times are in milliseconds.     *)
(***************************************************************************)
MaxRetryAttempts == 3
SAFETY_MARGIN_MS == 5000

Wrappers == {"sp_api", "facebook", "analyzer"}

\* the values configured for backoff_base_sec and backoff_max_sec
BackoffBases == {1000, 2000}
BackoffMaxes == {3000, 60000}

\* random.random() in thousandths: a value of [0, 1)
RandomPermille == {0, 500, 999}

\* an error text is a sequence of tokens
Word(s) == [kind |-> "word", s |-> s, n |-> 0]
Punct(s) == [kind |-> "punct", s |-> s, n |-> 0]
Str(s) == [kind |-> "str", s |-> s, n |-> 0]
Num(n) == [kind |-> "num", s |-> "", n |-> n]
Colon == Punct(":")

HintValues == {0, 1000}

\* str(e) of the exceptions the wrapped operation raises
ErrorTexts ==
    {<<Word("timeout")>>,
     <<Word("error"), Colon, Punct("["), Punct("]")>>,
     <<Word("error"), Colon, Num(7)>>,
     <<Word("error"), Colon, Punct("{"), Punct("}")>>,
     <<Word("error"), Colon, Punct("{"), Str("note"), Colon, Str("busy"), Punct("}")>>,
     <<Word("error"), Colon, Punct("{"), Str("refillIn"), Colon, Str("soon"), Punct("}")>>,
     <<Punct("{"), Str("refillIn"), Colon, Num(1000), Punct("}")>>}
    \cup {<<Word("error"), Colon, Punct("{"), Str("refillIn"), Colon, Num(h), Punct("}")>> :
              h \in HintValues}

NoError == <<>>

RECURSIVE Pow2(_)
Pow2(k) == IF k = 0 THEN 1 ELSE 2 * Pow2(k - 1)

MinOf(a, b) == IF a <= b THEN a ELSE b

\* str(e).split(":", 1)[-1]: the text after the first colon, or all of it
AfterFirstColon(text) ==
    IF \E i \in 1..Len(text) : text[i] = Colon
    THEN LET i == CHOOSE i \in 1..Len(text) :
                      /\ text[i] = Colon
                      /\ \A j \in 1..(i - 1) : text[j] # Colon
         IN  SubSeq(text, i + 1, Len(text))
    ELSE text

JsonError == [type |-> "JSONDecodeError", has |-> FALSE, key |-> "", val |-> Word("")]
JsonScalar(t) == [type |-> t, has |-> FALSE, key |-> "", val |-> Word("")]
JsonObject(has, key, val) == [type |-> "object", has |-> has, key |-> key, val |-> val]

\* json.loads of a token sequence
JsonLoads(toks) ==
    IF Len(toks) = 1 /\ toks[1].kind = "num" THEN JsonScalar("number")
    ELSE IF Len(toks) = 1 /\ toks[1].kind = "str" THEN JsonScalar("string")
    ELSE IF toks = <<Punct("["), Punct("]")>> THEN JsonScalar("list")
    ELSE IF toks = <<Punct("{"), Punct("}")>> THEN JsonObject(FALSE, "", Word(""))
    ELSE IF /\ Len(toks) = 5
            /\ toks[1] = Punct("{")
            /\ toks[2].kind = "str"
            /\ toks[3] = Colon
            /\ toks[4].kind \in {"num", "str"}
            /\ toks[5] = Punct("}")
         THEN JsonObject(TRUE, toks[2].s, toks[4])
    ELSE JsonError

\* the value of refill_ms: None, a number of milliseconds, or another object
RefillNone == [kind |-> "none", n |-> 0]
RefillNum(n) == [kind |-> "num", n |-> n]
RefillOther == [kind |-> "other", n |-> 0]

NoException == "none"

\* the outcome of one pass through a wrapper's except block
Waited(w, hinted) == [exc |-> NoException, wait |-> w, hinted |-> hinted]
Escaped(e) == [exc |-> e, wait |-> 0, hinted |-> FALSE]

\* min(backoff_max_sec, backoff_base_sec * 2 ** attempt) without the cap
BackoffWaitUncapped(cfg, k, r) ==
    ((cfg.backoff_base * Pow2(k)) * (500 + r)) \div 1000

\* min(backoff_max_sec, backoff_base_sec * 2 ** attempt) * (0.5 + random())
BackoffWait(cfg, k, r) ==
    (MinOf(cfg.backoff_max, cfg.backoff_base * Pow2(k)) * (500 + r)) \div 1000

\* sp_api_utils.retry_with_backoff: no hint is looked for
ExceptSpApi(cfg, k, text, r) == Waited(BackoffWait(cfg, k, r), FALSE)

\* retry_with_backoff_async: refill_ms after the try/except of lines 28-33.
\* payload.get is assigned before float() is tried, so a value float()
\* rejects stays in refill_ms.
RefillFacebook(text) ==
    LET payload == JsonLoads(AfterFirstColon(text))
    IN  IF payload.type # "object" THEN RefillNone
        ELSE IF ~(payload.has /\ payload.key = "refillIn") THEN RefillNone
        ELSE IF payload.val.kind = "num"
             THEN RefillNum(payload.val.n + SAFETY_MARGIN_MS)
        ELSE RefillOther

\* retry_with_backoff_async, lines 35-40
ExceptFacebook(cfg, k, text, r) ==
    LET refill_ms == RefillFacebook(text)
    IN  IF refill_ms.kind = "none" THEN Waited(BackoffWait(cfg, k, r), FALSE)
        ELSE IF refill_ms.kind = "num" THEN Waited(refill_ms.n, TRUE)
        ELSE Escaped("TypeError")

\* the names bound in each wrapper's module: the analyzer's module binds
\* no `logger`
HasLogger(w) == w \in {"sp_api", "facebook"}

\* ai_product_analyzer.retry_with_backoff, lines 23-37: json.loads and
\* payload.get are outside the try; only float() is guarded
ExceptAnalyzerBody(cfg, k, text, r) ==
    LET payload == JsonLoads(AfterFirstColon(text))
    IN  IF payload.type = "JSONDecodeError" THEN Escaped("JSONDecodeError")
        ELSE IF payload.type # "object" THEN Escaped("AttributeError")
        ELSE IF payload.has /\ payload.key = "refillIn" /\ payload.val.kind = "num"
             THEN Waited(payload.val.n + SAFETY_MARGIN_MS, TRUE)
        ELSE Waited(BackoffWait(cfg, k, r), FALSE)

\* ai_product_analyzer.retry_with_backoff, lines 19-38
ExceptAnalyzer(cfg, k, text, r) ==
    IF ~HasLogger("analyzer") THEN Escaped("NameError")
    ELSE ExceptAnalyzerBody(cfg, k, text, r)

ExceptBlock(w, cfg, k, text, r) ==
    CASE w = "sp_api" -> ExceptSpApi(cfg, k, text, r)
      [] w = "facebook" -> ExceptFacebook(cfg, k, text, r)
      [] w = "analyzer" -> ExceptAnalyzer(cfg, k, text, r)

NoConfig == [attempts |-> 0, backoff_base |-> 0, backoff_max |-> 0]
NoAttempt == [k |-> -1, text |-> NoError, wait |-> 0, exc |-> NoException,
              hinted |-> FALSE]
NoResult == [kind |-> "none", ok |-> FALSE, value |-> "None", error |-> NoError]
Returned(ok, value, error) ==
    [kind |-> "return", ok |-> ok, value |-> value, error |-> error]
Raised(e) == [kind |-> e, ok |-> FALSE, value |-> "None", error |-> NoError]

\* the wrapper is entered: cfg = get_retry_config() or the keyword arguments
Retry_Call ==
    /\ retry_pc = "idle"
    /\ \E w \in Wrappers, n \in 1..MaxRetryAttempts,
          b \in BackoffBases, m \in BackoffMaxes :
          /\ retry_wrapper' = w
          /\ retry_cfg' = [attempts |-> n, backoff_base |-> b, backoff_max |-> m]
    /\ retry_pc' = "loop"
    /\ retry_attempt' = 0
    /\ retry_error' = NoError
    /\ UNCHANGED <<retry_calls, retry_last, retry_result>>
    /\ UNCHANGED outsideRetry

\* func() returns: return True, result, None
Retry_AttemptOk ==
    /\ retry_pc = "loop"
    /\ retry_attempt < retry_cfg.attempts
    /\ retry_calls' = retry_calls + 1
    /\ retry_result' = Returned(TRUE, "value", NoError)
    /\ retry_pc' = "returned"
    /\ UNCHANGED <<retry_wrapper, retry_cfg, retry_attempt, retry_error, retry_last>>
    /\ UNCHANGED outsideRetry

\* func() raises: the except block, the sleep and attempt += 1
Retry_AttemptFails ==
    /\ retry_pc = "loop"
    /\ retry_attempt < retry_cfg.attempts
    /\ retry_calls' = retry_calls + 1
    /\ \E text \in ErrorTexts, r \in RandomPermille :
          LET o == ExceptBlock(retry_wrapper, retry_cfg, retry_attempt, text, r)
          IN  /\ retry_error' = text
              /\ retry_last' = [k |-> retry_attempt, text |-> text, wait |-> o.wait,
                                exc |-> o.exc, hinted |-> o.hinted]
              /\ IF o.exc = NoException
                 THEN /\ retry_attempt' = retry_attempt + 1
                      /\ UNCHANGED <<retry_pc, retry_result>>
                 ELSE /\ retry_pc' = "raised"
                      /\ retry_result' = Raised(o.exc)
                      /\ UNCHANGED retry_attempt
    /\ UNCHANGED <<retry_wrapper, retry_cfg>>
    /\ UNCHANGED outsideRetry

\* the while condition fails: return False, None, error
Retry_Exhausted ==
    /\ retry_pc = "loop"
    /\ retry_attempt >= retry_cfg.attempts
    /\ retry_result' = Returned(FALSE, "None", retry_error)
    /\ retry_pc' = "returned"
    /\ UNCHANGED <<retry_wrapper, retry_cfg, retry_attempt, retry_error,
                   retry_calls, retry_last>>
    /\ UNCHANGED outsideRetry

(***************************************************************************)
(* sp_api_utils._parse_offers_response.  Amounts are in thousandths of a   *)
(* currency unit (19.99 is 19990).                                         *)
(***************************************************************************)
MaxOffers == 3

\* float('inf')
Inf == 1000000000
\* tolerance = 0.000000001, below one thousandth
Tolerance == 0

\* str.lower() of the condition tags a response carries
Lower(s) ==
    CASE s = "New" -> "new"
      [] s = "Used" -> "used"
      [] OTHER -> s

\* round(x, 2) of an amount in thousandths
Round2(x) == ((x + 5) \div 10) * 10

Abs(x) == IF x < 0 THEN -x ELSE x

\* the (ListingPrice, Shipping) pairs of the offers of a response
OfferPrices == {<<19990, 0>>, <<17500, 0>>, <<17500, 2490>>}

SellerIdAt(i) == "S" \o ToString(i)

\* one entry of Offers, of LowestPrices and of BuyBoxPrices
Offer(cond, p, bb) ==
    [SubCondition |-> cond, ListingPrice |-> p[1], Shipping |-> p[2],
     IsBuyBoxWinner |-> bb, SellerId |-> "", CurrencyCode |-> "EUR"]
PriceEntry(cond, amt) ==
    [condition |-> cond, LandedPrice |-> [has |-> TRUE, Amount |-> amt],
     CurrencyCode |-> "EUR"]
\* an entry whose LandedPrice carries no Amount
PriceEntryNoAmount(cond) ==
    [condition |-> cond, LandedPrice |-> [has |-> FALSE, Amount |-> 0],
     CurrencyCode |-> ""]

\* _parse_money: float(money.get('Amount', 0))
ParseMoney(money) == IF money.has THEN money.Amount ELSE 0

OfferShapes == {Offer(c, p, bb) : c \in {"new", "used"}, p \in OfferPrices, bb \in BOOLEAN}

\* the offers of a response carry the sellers' IDs, one seller per offer
WithSellers(os) == [i \in 1..Len(os) |-> [os[i] EXCEPT !.SellerId = SellerIdAt(i)]]

SeqsUpTo(S, n) == UNION {[1..k -> S] : k \in 0..n}

OfferLists == {WithSellers(os) : os \in SeqsUpTo(OfferShapes, MaxOffers)}
\* the LowestPrices and BuyBoxPrices lists of a response
LowestPricesLists ==
    {<<>>,
     <<PriceEntry("new", 15000)>>,
     <<PriceEntry("used", 15000)>>,
     <<PriceEntry("new", 19990)>>,
     <<PriceEntry("used", 15000), PriceEntry("new", 19990)>>,
     <<PriceEntryNoAmount("new")>>}
BuyBoxPricesLists ==
    {<<>>, <<PriceEntry("New", 19990)>>, <<PriceEntry("Used", 15000)>>}

NoPayload == [LowestPrices |-> <<>>, BuyBoxPrices |-> <<>>, Offers |-> <<>>]

Landed(offer) == offer.ListingPrice + offer.Shipping

\* lines 329-330
NoMinimum == [landed |-> Inf, currency |-> "EUR"]

\* the loops of lines 332-349 over LowestPrices and BuyBoxPrices
RECURSIVE ScanSummary(_, _, _)
ScanSummary(entries, i, best) ==
    IF i > Len(entries) THEN best
    ELSE LET e == entries[i]
         IN  IF /\ Lower(e.condition) = "new"
                /\ 0 <= ParseMoney(e.LandedPrice)
                /\ ParseMoney(e.LandedPrice) < best.landed
             THEN ScanSummary(entries, i + 1,
                              [landed |-> ParseMoney(e.LandedPrice),
                               currency |-> e.CurrencyCode])
             ELSE ScanSummary(entries, i + 1, best)

\* the loop of lines 352-359 over Offers
RECURSIVE ScanOffers(_, _, _)
ScanOffers(offers, i, best) ==
    IF i > Len(offers) THEN best
    ELSE LET o == offers[i]
         IN  IF /\ Lower(o.SubCondition) = "new"
                /\ 0 <= Landed(o)
                /\ Landed(o) < best.landed
             THEN ScanOffers(offers, i + 1,
                             [landed |-> Landed(o), currency |-> o.CurrencyCode])
             ELSE ScanOffers(offers, i + 1, best)

\* lines 327-359: the minimum over the three collections
MinLanded(payload) ==
    ScanOffers(payload.Offers, 1,
        ScanSummary(payload.BuyBoxPrices, 1,
            ScanSummary(payload.LowestPrices, 1, NoMinimum)))

OfferUrl(asin, seller_id) ==
    IF seller_id # "" THEN "https://www.amazon.de/dp/" \o asin \o "?m=" \o seller_id
    ELSE PyNone

OfferData(asin, offer) == [offer_url |-> OfferUrl(asin, offer.SellerId)]
NoOffer == [offer_url |-> "no offer"]

\* the first pass taking the first match only
RECURSIVE FirstPassFirstMatch(_, _, _, _, _)
FirstPassFirstMatch(asin, offers, i, min, cheapest) ==
    IF i > Len(offers) THEN cheapest
    ELSE LET o == offers[i]
         IN  IF Lower(o.SubCondition) # "new"
             THEN FirstPassFirstMatch(asin, offers, i + 1, min, cheapest)
             ELSE IF Abs(Landed(o) - min) <= Tolerance /\ cheapest = NoOffer
                  THEN OfferData(asin, o)
                  ELSE FirstPassFirstMatch(asin, offers, i + 1, min, cheapest)

\* lines 379-401: the first pass, preferring a buy-box winner
RECURSIVE FirstPass(_, _, _, _, _)
FirstPass(asin, offers, i, min, cheapest) ==
    IF i > Len(offers) THEN cheapest
    ELSE LET o == offers[i]
         IN  IF Lower(o.SubCondition) # "new"
             THEN FirstPass(asin, offers, i + 1, min, cheapest)
             ELSE IF Abs(Landed(o) - min) <= Tolerance
                  THEN IF cheapest = NoOffer \/ o.IsBuyBoxWinner
                       THEN IF o.IsBuyBoxWinner
                            THEN OfferData(asin, o)
                            ELSE FirstPass(asin, offers, i + 1, min, OfferData(asin, o))
                       ELSE FirstPass(asin, offers, i + 1, min, cheapest)
                  ELSE FirstPass(asin, offers, i + 1, min, cheapest)

\* the fallback pass without the SubCondition test
RECURSIVE ClosestPassAnyCondition(_, _, _, _, _, _)
ClosestPassAnyCondition(asin, offers, i, min, closest, cheapest) ==
    IF i > Len(offers) THEN cheapest
    ELSE LET o == offers[i]
         IN  IF Landed(o) >= min /\ Landed(o) < closest
             THEN ClosestPassAnyCondition(asin, offers, i + 1, min, Landed(o),
                                          OfferData(asin, o))
             ELSE ClosestPassAnyCondition(asin, offers, i + 1, min, closest, cheapest)

\* lines 404-420: the closest 'new' offer at or above the minimum
RECURSIVE ClosestPass(_, _, _, _, _, _)
ClosestPass(asin, offers, i, min, closest, cheapest) ==
    IF i > Len(offers) THEN cheapest
    ELSE LET o == offers[i]
         IN  IF Lower(o.SubCondition) # "new"
             THEN ClosestPass(asin, offers, i + 1, min, closest, cheapest)
             ELSE IF Landed(o) >= min /\ Landed(o) < closest
                  THEN ClosestPass(asin, offers, i + 1, min, Landed(o), OfferData(asin, o))
                  ELSE ClosestPass(asin, offers, i + 1, min, closest, cheapest)

NoPrices == [min_price |-> PyNone, currency |-> PyNone, cheapest_offer |-> NoOffer,
             found |-> FALSE, amount |-> 0]

\* _parse_offers_response: `found` tells a price from None, `amount` is
\* min_price when found
ParseOffersResponse(asin, payload) ==
    LET best == MinLanded(payload)
        first == FirstPass(asin, payload.Offers, 1, best.landed, NoOffer)
        cheapest == IF first # NoOffer THEN first
                    ELSE ClosestPass(asin, payload.Offers, 1, best.landed, Inf, NoOffer)
    IN  IF best.landed = Inf THEN NoPrices
        ELSE [min_price |-> "price", currency |-> best.currency,
              cheapest_offer |-> cheapest, found |-> TRUE,
              amount |-> Round2(best.landed)]

TheAsin == "B000000001"

\* one response is parsed
Offers_Parse ==
    /\ offers_pc = "idle"
    /\ \E lp \in LowestPricesLists, bbp \in BuyBoxPricesLists, os \in OfferLists :
          /\ offers_payload' = [LowestPrices |-> lp, BuyBoxPrices |-> bbp, Offers |-> os]
          /\ offers_parsed' = ParseOffersResponse(TheAsin, offers_payload')
    /\ offers_pc' = "parsed"
    /\ UNCHANGED outsideOffers

(***************************************************************************)
(* listings.tasks.fetch_min_prices_task, sp_api_utils.fetch_single_asin_   *)
(* data and merge_listing_data                                             *)
(***************************************************************************)
MaxAsins == 2
\* max_attempts=2 of the two lookups
LOOKUP_MAX_ATTEMPTS == 2

AsinValue(i) == "B00000000" \o ToString(i)

\* the MinPriceTask row before the worker picks it up
NewTask == [status |-> "PENDING", started_at |-> NULL, finished_at |-> NULL,
            total_asins |-> 0, processed_asins |-> 0, error_message |-> NULL]

\* what _parse_catalog_response returns for an ASIN
CatalogResults(asin) ==
    {[none |-> FALSE, title |-> "Canon", images |-> <<"main.jpg">>,
      product_url |-> "https://www.amazon.de/dp/" \o asin],
     [none |-> FALSE, title |-> PyNone, images |-> <<>>,
      product_url |-> "https://www.amazon.de/dp/" \o asin]}
NoCatalog == [none |-> TRUE, title |-> "", images |-> <<>>, product_url |-> ""]

\* the offers payloads get_item_offers answers with
PricingPayloads ==
    {[LowestPrices |-> <<>>, BuyBoxPrices |-> <<>>,
      Offers |-> WithSellers(<<Offer("new", <<19990, 0>>, FALSE)>>)],
     [LowestPrices |-> <<>>, BuyBoxPrices |-> <<>>,
      Offers |-> WithSellers(<<Offer("used", <<17500, 0>>, FALSE)>>)]}
PricingOf(parsed) == [none |-> FALSE, data |-> parsed]
NoPricing == [none |-> TRUE, data |-> NoPrices]

CatalogKeys == {"title", "images", "product_url"}
PricingKeys == {"min_price", "currency", "cheapest_offer"}

\* merge_listing_data with the pricing fields merged only next to catalog
\* fields
MergeNeedsCatalog(asin_value, catalog_data, pricing_data) ==
    [keys |-> {"asin"}
              \cup (IF ~catalog_data.none THEN CatalogKeys ELSE {})
              \cup (IF ~catalog_data.none /\ ~pricing_data.none THEN PricingKeys ELSE {}),
     asin |-> asin_value,
     title |-> catalog_data.title,
     images |-> catalog_data.images,
     product_url |-> catalog_data.product_url,
     min_price |-> pricing_data.data.min_price,
     amount |-> pricing_data.data.amount,
     currency |-> pricing_data.data.currency,
     cheapest_offer |-> pricing_data.data.cheapest_offer]

\* merge_listing_data: `keys` are the keys of the dict returned
merge_listing_data(asin_value, catalog_data, pricing_data) ==
    [keys |-> {"asin"}
              \cup (IF ~catalog_data.none THEN CatalogKeys ELSE {})
              \cup (IF ~pricing_data.none THEN PricingKeys ELSE {}),
     asin |-> asin_value,
     title |-> catalog_data.title,
     images |-> catalog_data.images,
     product_url |-> catalog_data.product_url,
     min_price |-> pricing_data.data.min_price,
     amount |-> pricing_data.data.amount,
     currency |-> pricing_data.data.currency,
     cheapest_offer |-> pricing_data.data.cheapest_offer]

NoLookups == [catalog |-> 0, pricing |-> 0, catalog_outcome |-> "none",
              catalog_data |-> NoCatalog, pricing_outcome |-> "none",
              pricing_data |-> NoPricing]

\* task_obj.processed_asins = idx, one short
ProgressBefore(idx) == idx

\* task_obj.processed_asins = idx + 1
ProgressAfter(idx) == idx + 1

\* lines 36-39: the row is loaded, RUNNING and started_at are saved
FTask_Start ==
    /\ fetch_pc = "f_queued"
    /\ task_obj' = [task_row EXCEPT !.status = "RUNNING", !.started_at = Now]
    /\ task_row' = task_obj'
    /\ fetch_pc' = "f_count"
    /\ UNCHANGED <<asins, fetch_idx, lookup_attempt, catalog_result,
                   pricing_result, lookups, saved, progress>>
    /\ UNCHANGED outsideFetch

\* lines 53-61: the ASINs are listed, total_asins and processed_asins saved
FTask_Count ==
    /\ fetch_pc = "f_count"
    /\ \E n \in 0..MaxAsins : asins' = [i \in 1..n |-> AsinValue(i)]
    /\ task_obj' = [task_obj EXCEPT !.total_asins = Len(asins'),
                                    !.processed_asins = 0]
    /\ task_row' = task_obj'
    /\ progress' = Append(progress, 0)
    /\ fetch_idx' = 0
    /\ fetch_pc' = "f_loop"
    /\ UNCHANGED <<lookup_attempt, catalog_result, pricing_result, lookups, saved>>
    /\ UNCHANGED outsideFetch

\* lines 68-78: the next ASIN is taken after the cancellation poll
FTask_Poll ==
    /\ fetch_pc = "f_loop"
    /\ fetch_idx < Len(asins)
    /\ IF task_row.status = "CANCELLED"
       THEN /\ task_obj' = [task_row EXCEPT !.finished_at = Now]
            /\ task_row' = task_obj'
            /\ fetch_pc' = "f_done"
       ELSE /\ task_obj' = task_row
            /\ fetch_pc' = "f_catalog"
            /\ UNCHANGED task_row
    /\ lookup_attempt' = 0
    /\ catalog_result' = NoCatalog
    /\ pricing_result' = NoPricing
    /\ lookups' = NoLookups
    /\ UNCHANGED <<asins, fetch_idx, saved, progress>>
    /\ UNCHANGED outsideFetch

\* get_catalog_item raises inside retry_with_backoff, attempts remain
Fetch_CatalogAttemptFails ==
    /\ fetch_pc = "f_catalog"
    /\ lookup_attempt < LOOKUP_MAX_ATTEMPTS
    /\ lookup_attempt' = lookup_attempt + 1
    /\ lookups' = [lookups EXCEPT !.catalog = @ + 1]
    /\ UNCHANGED <<task_row, task_obj, asins, fetch_idx, fetch_pc, catalog_result,
                   pricing_result, saved, progress>>
    /\ UNCHANGED outsideFetch

\* lines 255-265: the lookup answers and _parse_catalog_response returns data
Fetch_CatalogOk ==
    /\ fetch_pc = "f_catalog"
    /\ lookup_attempt < LOOKUP_MAX_ATTEMPTS
    /\ \E data \in CatalogResults(asins[fetch_idx + 1]) :
          /\ catalog_result' = data
          /\ lookups' = [lookups EXCEPT !.catalog = @ + 1,
                                        !.catalog_outcome = "ok",
                                        !.catalog_data = data]
    /\ lookup_attempt' = 0
    /\ fetch_pc' = "f_pricing"
    /\ UNCHANGED <<task_row, task_obj, asins, fetch_idx, pricing_result, saved,
                   progress>>
    /\ UNCHANGED outsideFetch

\* lines 264-267: the lookup answers but reading the response raises, or
\* _parse_catalog_response returns None
Fetch_CatalogRaises ==
    /\ fetch_pc = "f_catalog"
    /\ lookup_attempt < LOOKUP_MAX_ATTEMPTS
    /\ catalog_result' = NoCatalog
    /\ lookups' = [lookups EXCEPT !.catalog = @ + 1, !.catalog_outcome = "raised"]
    /\ lookup_attempt' = 0
    /\ fetch_pc' = "f_pricing"
    /\ UNCHANGED <<task_row, task_obj, asins, fetch_idx, pricing_result, saved,
                   progress>>
    /\ UNCHANGED outsideFetch

\* retry_with_backoff returns (False, None, error): catalog_result stays None
Fetch_CatalogExhausted ==
    /\ fetch_pc = "f_catalog"
    /\ lookup_attempt >= LOOKUP_MAX_ATTEMPTS
    /\ catalog_result' = NoCatalog
    /\ lookups' = [lookups EXCEPT !.catalog_outcome = "exhausted"]
    /\ lookup_attempt' = 0
    /\ fetch_pc' = "f_pricing"
    /\ UNCHANGED <<task_row, task_obj, asins, fetch_idx, pricing_result, saved,
                   progress>>
    /\ UNCHANGED outsideFetch

\* get_item_offers raises inside retry_with_backoff, attempts remain
Fetch_PricingAttemptFails ==
    /\ fetch_pc = "f_pricing"
    /\ lookup_attempt < LOOKUP_MAX_ATTEMPTS
    /\ lookup_attempt' = lookup_attempt + 1
    /\ lookups' = [lookups EXCEPT !.pricing = @ + 1]
    /\ UNCHANGED <<task_row, task_obj, asins, fetch_idx, fetch_pc, catalog_result,
                   pricing_result, saved, progress>>
    /\ UNCHANGED outsideFetch

\* lines 272-285: the lookup answers and _parse_offers_response returns data
Fetch_PricingOk ==
    /\ fetch_pc = "f_pricing"
    /\ lookup_attempt < LOOKUP_MAX_ATTEMPTS
    /\ \E payload \in PricingPayloads :
          LET data == PricingOf(ParseOffersResponse(asins[fetch_idx + 1], payload))
          IN  /\ pricing_result' = data
              /\ lookups' = [lookups EXCEPT !.pricing = @ + 1,
                                            !.pricing_outcome = "ok",
                                            !.pricing_data = data]
    /\ lookup_attempt' = 0
    /\ fetch_pc' = "f_merge"
    /\ UNCHANGED <<task_row, task_obj, asins, fetch_idx, catalog_result, saved,
                   progress>>
    /\ UNCHANGED outsideFetch

\* lines 282-287: the answer has an empty payload, reading it raises, or
\* _parse_offers_response returns None
Fetch_PricingRaises ==
    /\ fetch_pc = "f_pricing"
    /\ lookup_attempt < LOOKUP_MAX_ATTEMPTS
    /\ pricing_result' = NoPricing
    /\ lookups' = [lookups EXCEPT !.pricing = @ + 1, !.pricing_outcome = "raised"]
    /\ lookup_attempt' = 0
    /\ fetch_pc' = "f_merge"
    /\ UNCHANGED <<task_row, task_obj, asins, fetch_idx, catalog_result, saved,
                   progress>>
    /\ UNCHANGED outsideFetch

\* retry_with_backoff returns (False, None, error): pricing_result stays None
Fetch_PricingExhausted ==
    /\ fetch_pc = "f_pricing"
    /\ lookup_attempt >= LOOKUP_MAX_ATTEMPTS
    /\ pricing_result' = NoPricing
    /\ lookups' = [lookups EXCEPT !.pricing_outcome = "exhausted"]
    /\ lookup_attempt' = 0
    /\ fetch_pc' = "f_merge"
    /\ UNCHANGED <<task_row, task_obj, asins, fetch_idx, catalog_result, saved,
                   progress>>
    /\ UNCHANGED outsideFetch

\* lines 89-95: merge and Asin.objects.filter(id=asin_id).update(...)
FTask_Save ==
    /\ fetch_pc = "f_merge"
    /\ saved' = Append(saved,
                  [merged |-> merge_listing_data(asins[fetch_idx + 1],
                                                 catalog_result, pricing_result),
                   lookups |-> lookups])
    /\ fetch_pc' = "f_progress"
    /\ UNCHANGED <<task_row, task_obj, asins, fetch_idx, lookup_attempt,
                   catalog_result, pricing_result, lookups, progress>>
    /\ UNCHANGED outsideFetch

\* lines 98-99: processed_asins = idx + 1 is saved
FTask_Progress ==
    /\ fetch_pc = "f_progress"
    /\ task_obj' = [task_obj EXCEPT !.processed_asins = ProgressAfter(fetch_idx)]
    /\ task_row' = task_obj'
    /\ progress' = Append(progress, task_obj'.processed_asins)
    /\ fetch_idx' = fetch_idx + 1
    /\ fetch_pc' = "f_loop"
    /\ UNCHANGED <<asins, lookup_attempt, catalog_result, pricing_result,
                   lookups, saved>>
    /\ UNCHANGED outsideFetch

\* lines 101-103: the loop is over, SUCCESS and finished_at are saved
FTask_Finish ==
    /\ fetch_pc = "f_loop"
    /\ fetch_idx >= Len(asins)
    /\ task_obj' = [task_obj EXCEPT !.status = "SUCCESS", !.finished_at = Now]
    /\ task_row' = task_obj'
    /\ fetch_pc' = "f_done"
    /\ UNCHANGED <<asins, fetch_idx, lookup_attempt, catalog_result,
                   pricing_result, lookups, saved, progress>>
    /\ UNCHANGED outsideFetch

\* line 95 raises (the database rejects the update): control reaches the
\* except clause
FTask_Raises ==
    /\ fetch_pc = "f_merge"
    /\ fetch_pc' = "f_except"
    /\ UNCHANGED <<task_row, task_obj, asins, fetch_idx, lookup_attempt,
                   catalog_result, pricing_result, lookups, saved, progress>>
    /\ UNCHANGED outsideFetch

\* lines 106-113: refresh_from_db, FAILURE is saved unless the row is CANCELLED
FTask_Except ==
    /\ fetch_pc = "f_except"
    /\ task_obj' = IF task_row.status # "CANCELLED"
                   THEN [task_row EXCEPT !.status = "FAILURE",
                                         !.error_message = "update failed",
                                         !.finished_at = Now]
                   ELSE task_row
    /\ task_row' = task_obj'
    /\ fetch_pc' = "f_done"
    /\ UNCHANGED <<asins, fetch_idx, lookup_attempt, catalog_result,
                   pricing_result, lookups, saved, progress>>
    /\ UNCHANGED outsideFetch

\* the cancellation write of the task's owner: status CANCELLED is stored for
\* a task that has not finished
Cancel_Store ==
    /\ task_row.status \in {"PENDING", "RUNNING"}
    /\ fetch_pc # "f_done"
    /\ task_row' = [task_row EXCEPT !.status = "CANCELLED"]
    /\ UNCHANGED <<fetch_pc, task_obj, asins, fetch_idx, lookup_attempt,
                   catalog_result, pricing_result, lookups, saved, progress>>
    /\ UNCHANGED outsideFetch

(***************************************************************************)
(* ai_product_analyzer: AIProductAnalyzer.start_processing and             *)
(* _process_products, TitleGenerator.generate_title, PriceFetcher and      *)
(* organize_result, run by tasks.analyze_products                          *)
(***************************************************************************)
MaxProducts == 2

\* an imported product: whether it has a description or images, and whether
\* its price text is one float() accepts
ProductInputs ==
    {[content |-> c, price |-> p, title_status |-> "pending", products |-> 0,
      priced |-> "pending", difference |-> "pending"] :
         c \in BOOLEAN, p \in {"number", "text"}}

NoGroups == [Validated |-> <<>>, Excluded |-> <<>>]

\* what generate_title leaves in the product: the defaults of
\* _set_default_title (no description or images, the AI call failed, the
\* answer is not JSON, an exception), or the sub-products _parse_response
\* kept (0: none listed or all filtered as not original)
TitleOutcomes(product) ==
    IF ~product.content
    THEN {[product EXCEPT !.title_status = "default", !.products = 0]}
    ELSE {[product EXCEPT !.title_status = "default", !.products = 0],
          [product EXCEPT !.title_status = "parsed", !.products = 0],
          [product EXCEPT !.title_status = "parsed", !.products = 1]}

\* the value generate_title returns: every path ends in a bare return
GenerateTitleReturn(product) == PyNone

\* PriceFetcher.fetch_prices: no sub-products, a match, no match, or an
\* exception it catches
PriceOutcomes(product) ==
    IF product.products = 0 THEN {[product EXCEPT !.priced = "skipped"]}
    ELSE {[product EXCEPT !.priced = st] : st \in {"found", "not_found", "error"}}

\* organize_result raises: float(price) failed, difference stays "N/A" and
\* round("N/A", 2) is outside the try
OrganizeRaises(product) == product.price = "text"

\* lines 85-96: generate_title, the two appends and the checkpoint
Ana_GenerateTitle ==
    /\ ana_pc = "a_title"
    /\ ana_idx <= Len(ana_products)
    /\ \E p \in TitleOutcomes(ana_products[ana_idx]) :
          LET excluded_product == GenerateTitleReturn(p)
              g1 == IF excluded_product # PyNone
                    THEN [ana_groups EXCEPT !.Excluded = Append(@, ana_idx)]
                    ELSE ana_groups
              g2 == IF p.products > 0
                    THEN [g1 EXCEPT !.Validated = Append(@, ana_idx)]
                    ELSE g1
          IN  /\ ana_products' = [ana_products EXCEPT ![ana_idx] = p]
              /\ ana_groups' = g2
              /\ ana_written' = [kind |-> "groups", groups |-> g2]
    /\ ana_pc' = "a_price"
    /\ UNCHANGED <<ana_idx, ana_final, ana_ok, ana_run>>
    /\ UNCHANGED outsideAna

\* lines 98-101: fetch_prices, organize_result and the checkpoint
Ana_FetchPrices ==
    /\ ana_pc = "a_price"
    /\ ~OrganizeRaises(ana_products[ana_idx])
    /\ \E p \in PriceOutcomes(ana_products[ana_idx]) :
          ana_products' = [ana_products EXCEPT ![ana_idx] =
                              [p EXCEPT !.difference = "number"]]
    /\ ana_written' = [kind |-> "groups", groups |-> ana_groups]
    /\ ana_idx' = ana_idx + 1
    /\ ana_pc' = "a_title"
    /\ UNCHANGED <<ana_groups, ana_final, ana_ok, ana_run>>
    /\ UNCHANGED outsideAna

\* lines 98-99 and 72-74: organize_result raises, start_processing logs the
\* error and returns False
Ana_OrganizeRaises ==
    /\ ana_pc = "a_price"
    /\ OrganizeRaises(ana_products[ana_idx])
    /\ \E p \in PriceOutcomes(ana_products[ana_idx]) :
          ana_products' = [ana_products EXCEPT ![ana_idx] = p]
    /\ ana_pc' = "a_returned"
    /\ ana_ok' = "False"
    /\ UNCHANGED <<ana_idx, ana_groups, ana_written, ana_final, ana_run>>
    /\ UNCHANGED outsideAna

\* lines 54 and 60: Importer.import_data returns the products
Ana_Import ==
    /\ ana_pc = "a_import"
    /\ \E n \in 1..MaxProducts : ana_products' \in [1..n -> ProductInputs]
    /\ ana_idx' = 1
    /\ ana_pc' = "a_title"
    /\ UNCHANGED <<ana_groups, ana_written, ana_final, ana_ok, ana_run>>
    /\ UNCHANGED outsideAna

\* lines 54-57 and 72-74: the import reports failure or raises
Ana_ImportFails ==
    /\ ana_pc = "a_import"
    /\ ana_pc' = "a_returned"
    /\ ana_ok' = "False"
    /\ UNCHANGED <<ana_products, ana_idx, ana_groups, ana_written, ana_final,
                   ana_run>>
    /\ UNCHANGED outsideAna

\* lines 62-70: the loop is over, writer.write(self.products), return True
Ana_Export ==
    /\ ana_pc = "a_title"
    /\ ana_idx > Len(ana_products)
    /\ ana_written' = [kind |-> "products", groups |-> NoGroups]
    /\ ana_pc' = "a_returned"
    /\ ana_ok' = "True"
    /\ UNCHANGED <<ana_products, ana_idx, ana_groups, ana_final, ana_run>>
    /\ UNCHANGED outsideAna

\* tasks.analyze_products drops what start_processing returned and returns
\* get_all_results(); execute_script_task dumps it as the Run's final result
\* and stores SUCCESS
Ana_Return ==
    /\ ana_pc = "a_returned"
    /\ ana_final' = ana_groups
    /\ ana_written' = [kind |-> "groups", groups |-> ana_groups]
    /\ ana_run' = [ana_run EXCEPT !.status = "SUCCESS"]
    /\ ana_pc' = "a_done"
    /\ UNCHANGED <<ana_products, ana_idx, ana_groups, ana_ok>>
    /\ UNCHANGED outsideAna

\* AIProductAnalyzer.__init__ raises ValueError (no input file, no API key):
\* the except branch of execute_script_task stores FAILURE and the message
Ana_InitRaises ==
    /\ ana_pc = "a_import"
    /\ ana_run' = [status |-> "FAILURE", error_message |-> "Input data is not given"]
    /\ ana_pc' = "a_done"
    /\ UNCHANGED <<ana_products, ana_idx, ana_groups, ana_written, ana_final,
                   ana_ok>>
    /\ UNCHANGED outsideAna

(***************************************************************************)
(* Log streaming: tasks.stream_logs, the two places that start it          *)
(* (RunViewSet.create and execute_script_task) and the log lines            *)
(* execute_script_task writes around its status saves                       *)
(***************************************************************************)
MaxPipelineLines == 1

\* the stream_logs tasks of one Run, named after the caller of .delay
Readers == {"create", "worker"}

\* send_event(channel, 'logs', ...): lines lo..hi of the log file
LogsEvent(r, lo, hi) == [kind |-> "logs", reader |-> r, lo |-> lo, hi |-> hi]

\* send_event(channel, 'finished', {'finished': True})
FinishedEvent(r) == [kind |-> "finished", reader |-> r, lo |-> 0, hi |-> 0]

\* f.seek(position); f.read(): the events of a chunk, none when it is empty
ChunkEvents(r, pos, len) == IF len > pos THEN <<LogsEvent(r, pos + 1, len)>> ELSE <<>>

\* faulty variant: the position is left where it was after a chunk was sent
PositionStays(pos, len) == pos

\* stream_logs 276-277: if new_data: position = f.tell()
PositionAfter(pos, len) == IF len > pos THEN len ELSE pos

\* faulty variant: the reader stops only for a successful Run
StopsOnlyOnSuccess(run) == run.status = "SUCCESS"

\* stream_logs line 258: if run.is_finished()
ReaderSeesFinished(run) == is_finished(run)

\* views.py 151-183 without a failure: the row, the empty log file, both
\* tasks queued, the task id saved
Log_Create ==
    /\ log_db.status = "ABSENT"
    /\ log_db' = [status |-> "PENDING"]
    /\ log_wpc' = "w_queued"
    /\ reader_pc' = [reader_pc EXCEPT !["create"] = "queued"]
    /\ UNCHANGED <<log_file, log_revoked, log_aborts, position, reader_start,
                   channel>>
    /\ UNCHANGED outsideLog

\* views.py 171-193: stream_logs.delay raises after the worker task was
\* queued; the except branch stores FAILURE
Log_CreateDelayLogsFails ==
    /\ log_db.status = "ABSENT"
    /\ log_db' = [status |-> "FAILURE"]
    /\ log_wpc' = "w_queued"
    /\ UNCHANGED <<log_file, log_revoked, log_aborts, reader_pc, position,
                   reader_start, channel>>
    /\ UNCHANGED outsideLog

\* RunViewSet.abort: a finished run is rejected, otherwise the task is revoked
\* and REVOKED is stored
Log_Abort ==
    /\ log_db.status # "ABSENT"
    /\ log_aborts < MaxAborts
    /\ log_aborts' = log_aborts + 1
    /\ IF is_finished(log_db)
       THEN UNCHANGED <<log_db, log_revoked>>
       ELSE /\ log_db' = [status |-> "REVOKED"]
            /\ log_revoked' = TRUE
    /\ UNCHANGED <<log_file, log_wpc, reader_pc, position, reader_start, channel>>
    /\ UNCHANGED outsideLog

\* tasks.py 19-30: the row is loaded and saved with started_at, the logger is
\* set up, stream_logs.delay queues the worker's reader
LTask_Start ==
    /\ log_wpc = "w_queued"
    /\ log_wpc' = "w_try"
    /\ reader_pc' = [reader_pc EXCEPT !["worker"] = "queued"]
    /\ UNCHANGED <<log_db, log_file, log_revoked, log_aborts, position,
                   reader_start, channel>>
    /\ UNCHANGED outsideLog

\* tasks.py 36-42: RECEIVED is saved, then the first lines are logged
LTask_Received ==
    /\ log_wpc = "w_try"
    /\ log_db' = [status |-> "RECEIVED"]
    /\ log_file' = log_file + 1
    /\ log_wpc' = "w_received"
    /\ UNCHANGED <<log_revoked, log_aborts, reader_pc, position, reader_start,
                   channel>>
    /\ UNCHANGED outsideLog

\* tasks.py 44-45: STARTED is saved
LTask_Started ==
    /\ log_wpc = "w_received"
    /\ log_db' = [status |-> "STARTED"]
    /\ log_wpc' = "w_pipeline"
    /\ UNCHANGED <<log_file, log_revoked, log_aborts, reader_pc, position,
                   reader_start, channel>>
    /\ UNCHANGED outsideLog

\* tasks.py 47-54: the pipeline logs a line
LPipeline_Log ==
    /\ log_wpc = "w_pipeline"
    /\ log_file < MaxPipelineLines + 1
    /\ log_file' = log_file + 1
    /\ UNCHANGED <<log_db, log_wpc, log_revoked, log_aborts, reader_pc, position,
                   reader_start, channel>>
    /\ UNCHANGED outsideLog

\* tasks.py 56-64: the pipeline returned, the result is dumped, SUCCESS saved
LTask_Success ==
    /\ log_wpc = "w_pipeline"
    /\ log_db' = [status |-> "SUCCESS"]
    /\ log_wpc' = "w_saved"
    /\ UNCHANGED <<log_file, log_revoked, log_aborts, reader_pc, position,
                   reader_start, channel>>
    /\ UNCHANGED outsideLog

\* tasks.py 66-67: logger.info("Task completed successfully"); return
LTask_LogCompleted ==
    /\ log_wpc = "w_saved"
    /\ log_file' = log_file + 1
    /\ log_wpc' = "w_done"
    /\ UNCHANGED <<log_db, log_revoked, log_aborts, reader_pc, position,
                   reader_start, channel>>
    /\ UNCHANGED outsideLog

\* tasks.py 69-70: the pipeline raised; logger.error("Task failed: ...")
LTask_LogFailed ==
    /\ log_wpc = "w_pipeline"
    /\ log_file' = log_file + 1
    /\ log_wpc' = "w_except"
    /\ UNCHANGED <<log_db, log_revoked, log_aborts, reader_pc, position,
                   reader_start, channel>>
    /\ UNCHANGED outsideLog

\* tasks.py 71-75: FAILURE is saved, the exception re-raised
LTask_Failure ==
    /\ log_wpc = "w_except"
    /\ log_db' = [status |-> "FAILURE"]
    /\ log_wpc' = "w_raised"
    /\ UNCHANGED <<log_file, log_revoked, log_aborts, reader_pc, position,
                   reader_start, channel>>
    /\ UNCHANGED outsideLog

\* revoke(terminate=True) reaches the worker, wherever it is
LTask_Killed ==
    /\ log_revoked
    /\ log_wpc \notin TaskOver \cup {"w_none"}
    /\ log_wpc' = "w_killed"
    /\ UNCHANGED <<log_db, log_file, log_revoked, log_aborts, reader_pc, position,
                   reader_start, channel>>
    /\ UNCHANGED outsideLog

\* stream_logs 242-250: the reader starts at the end of the log file
Reader_Start(r) ==
    /\ reader_pc[r] = "queued"
    /\ reader_pc' = [reader_pc EXCEPT ![r] = "poll"]
    /\ position' = [position EXCEPT ![r] = log_file]
    /\ reader_start' = [reader_start EXCEPT ![r] = log_file]
    /\ UNCHANGED <<log_db, log_file, log_wpc, log_revoked, log_aborts, channel>>
    /\ UNCHANGED outsideLog

\* stream_logs 252-255 and 270-284: the run is not finished; new data, if
\* any, is sent and the position advanced; sleep
Reader_Stream(r) ==
    /\ reader_pc[r] = "poll"
    /\ ~ReaderSeesFinished(log_db)
    /\ channel' = channel \o ChunkEvents(r, position[r], log_file)
    /\ position' = [position EXCEPT ![r] = PositionAfter(position[r], log_file)]
    /\ UNCHANGED <<log_db, log_file, log_wpc, log_revoked, log_aborts, reader_pc,
                   reader_start>>
    /\ UNCHANGED outsideLog

\* stream_logs 257-268: the run is finished; the final chunk, if any, and the
\* finished marker are sent; break
Reader_Final(r) ==
    /\ reader_pc[r] = "poll"
    /\ ReaderSeesFinished(log_db)
    /\ channel' = channel \o ChunkEvents(r, position[r], log_file)
                          \o <<FinishedEvent(r)>>
    /\ reader_pc' = [reader_pc EXCEPT ![r] = "stopped"]
    /\ UNCHANGED <<log_db, log_file, log_wpc, log_revoked, log_aborts, position,
                   reader_start>>
    /\ UNCHANGED outsideLog

\* one step of a reader
Reader(r) == Reader_Start(r) \/ Reader_Stream(r) \/ Reader_Final(r)

(***************************************************************************)
(* The two fragment handlers of one listing, delivered in both orders:     *)
(* handle_photos then handle_details, and handle_details then              *)
(* handle_photos, each on its own copy of items_dict                        *)
(***************************************************************************)
\* items_dict before the two fragments arrive: a fresh record, a record that
\* already holds details and photos, and a record behind another key's
FragDicts ==
    {<<EmptyItem(1)>>,
     HandlePhotos(HandleDetails(<<EmptyItem(1)>>, 1,
                                Payload("FOR_SALE_ITEM", "Nikon", "", "40")),
                  1, <<"old.jpg">>),
     <<EmptyItem(2), EmptyItem(1)>>}

\* the page's responses for a listing are about to arrive
Frag_Setup ==
    /\ frag_pc = "idle"
    /\ \E d \in FragDicts, i \in ListingIds, photos \in PhotoPayloads,
          payload \in DetailPayloads :
          /\ HasKey(d, i)
          /\ frag_pd' = d
          /\ frag_dp' = d
          /\ frag_in' = [id |-> i, photos |-> photos, payload |-> payload]
    /\ frag_pc' = "deliver"
    /\ UNCHANGED <<frag_npd, frag_ndp>>
    /\ UNCHANGED outsideFrag

\* photos first: handle_photos runs on the photo response
PD_Photos ==
    /\ frag_pc = "deliver"
    /\ frag_npd = 0
    /\ frag_pd' = HandlePhotos(frag_pd, frag_in.id, frag_in.photos)
    /\ frag_npd' = 1
    /\ UNCHANGED <<frag_pc, frag_in, frag_dp, frag_ndp>>
    /\ UNCHANGED outsideFrag

\* photos first: handle_details runs on the detail response
PD_Details ==
    /\ frag_pc = "deliver"
    /\ frag_npd = 1
    /\ frag_pd' = HandleDetails(frag_pd, frag_in.id, frag_in.payload)
    /\ frag_npd' = 2
    /\ UNCHANGED <<frag_pc, frag_in, frag_dp, frag_ndp>>
    /\ UNCHANGED outsideFrag

\* details first: handle_details runs on the detail response
DP_Details ==
    /\ frag_pc = "deliver"
    /\ frag_ndp = 0
    /\ frag_dp' = HandleDetails(frag_dp, frag_in.id, frag_in.payload)
    /\ frag_ndp' = 1
    /\ UNCHANGED <<frag_pc, frag_in, frag_pd, frag_npd>>
    /\ UNCHANGED outsideFrag

\* details first: handle_photos runs on the photo response
DP_Photos ==
    /\ frag_pc = "deliver"
    /\ frag_ndp = 1
    /\ frag_dp' = HandlePhotos(frag_dp, frag_in.id, frag_in.photos)
    /\ frag_ndp' = 2
    /\ UNCHANGED <<frag_pc, frag_in, frag_pd, frag_npd>>
    /\ UNCHANGED outsideFrag

(***************************************************************************)
(* Specifications                                                          *)
(***************************************************************************)
Init ==
    /\ db = NoRow
    /\ file = <<>>
    /\ committed = <<>>
    /\ cpc = "c_start"
    /\ cRun = NoRow
    /\ apc = "a_idle"
    /\ aRun = NoRow
    /\ aborts = 0
    /\ revoked = FALSE
    /\ wpc = "w_none"
    /\ wRun = NoRow
    /\ wExc = ""
    /\ wTarget = <<>>
    /\ wRet = "p_cities"
    /\ session = "unchecked"
    /\ cityNo = 0
    /\ ckpt = 0
    /\ readerGot = NotRead
    /\ mpc = "m_next_city"
    /\ cityIdx = 0
    /\ attempt = 0
    /\ api_buffer = <<>>
    /\ items_dict = <<>>
    /\ seen_links = {}
    /\ all_results = [c \in Cities |-> <<>>]
    /\ city_scraped_count = 0
    /\ no_new_items_count = 0
    /\ pending = 0
    /\ feedLeft = 0
    /\ lastDrain = <<>>
    /\ prevDrain = <<>>
    /\ drainState = "none"
    /\ cleanDrain = FALSE
    /\ retry_pc = "idle"
    /\ retry_wrapper = "none"
    /\ retry_cfg = NoConfig
    /\ retry_attempt = 0
    /\ retry_error = NoError
    /\ retry_calls = 0
    /\ retry_last = NoAttempt
    /\ retry_result = NoResult
    /\ offers_pc = "idle"
    /\ offers_payload = NoPayload
    /\ offers_parsed = NoPrices
    /\ fetch_pc = "f_queued"
    /\ task_row = NewTask
    /\ task_obj = NewTask
    /\ asins = <<>>
    /\ fetch_idx = 0
    /\ lookup_attempt = 0
    /\ catalog_result = NoCatalog
    /\ pricing_result = NoPricing
    /\ lookups = NoLookups
    /\ saved = <<>>
    /\ progress = <<>>
    /\ ana_pc = "a_import"
    /\ ana_products = <<>>
    /\ ana_idx = 0
    /\ ana_groups = NoGroups
    /\ ana_written = [kind |-> "none", groups |-> NoGroups]
    /\ ana_final = NoGroups
    /\ ana_ok = "none"
    /\ ana_run = [status |-> "STARTED", error_message |-> ""]
    /\ log_db = [status |-> "ABSENT"]
    /\ log_file = 0
    /\ log_wpc = "w_none"
    /\ log_revoked = FALSE
    /\ log_aborts = 0
    /\ reader_pc = [r \in Readers |-> "none"]
    /\ position = [r \in Readers |-> 0]
    /\ reader_start = [r \in Readers |-> 0]
    /\ channel = <<>>
    /\ frag_pc = "idle"
    /\ frag_in = [id |-> 1, photos |-> <<>>, payload |-> Payload("", "", "", "")]
    /\ frag_pd = <<>>
    /\ frag_dp = <<>>
    /\ frag_npd = 0
    /\ frag_ndp = 0

Next ==
    \/ Create_Run
    \/ Create_DelayTask
    \/ Create_DelayTaskFails
    \/ Create_DelayLogs
    \/ Create_DelayLogsFails
    \/ Create_SetTaskId
    \/ Abort_Load
    \/ Abort_Revoke
    \/ Abort_Save
    \/ Results
    \/ Task_Load
    \/ Task_StartedAt
    \/ Task_Received
    \/ Task_Started
    \/ Pipeline_Init
    \/ Pipeline_InitRaises
    \/ Pipeline_Login
    \/ Pipeline_StartCity
    \/ Pipeline_SkipCity
    \/ Pipeline_Flush
    \/ Pipeline_Raises
    \/ Pipeline_Return
    \/ Write_Open
    \/ Write_Dump
    \/ Task_Success
    \/ Task_Except
    \/ Task_Killed

Spec == Init /\ [][Next]_vars

\* the lifecycle with the worker's failures before its try block and with
\* scripts that name no pipeline
WorkerNext ==
    \/ Next
    \/ Task_LoadRaises
    \/ Task_SetupRaises
    \/ Task_NoPipeline

WorkerSpec == Init /\ [][WorkerNext]_vars

\* the collector alone, from a valid session: _async_main's city loop
ScraperNext ==
    \/ Main_NextCity
    \/ Main_GotoFails
    \/ Main_Done
    \/ Handle_Feed
    \/ Handle_Photos
    \/ Handle_Details
    \/ Scrape_Start
    \/ Scrape_TargetReached
    \/ Scrape_NoNewLinks
    \/ Scrape_FoundLinks
    \/ Scrape_ScrollOk
    \/ Scrape_ScrollFails
    \/ Scrape_ForEnd
    \/ Scrape_ForBreak
    \/ Scrape_SkipLink
    \/ Scrape_ProcessLink
    \/ Scrape_Final

ScraperSpec == Init /\ [][ScraperNext]_vars

\* one step of scrape_city's own code, and one of _async_main's city loop
ScrapeStep ==
    \/ Scrape_Start
    \/ Scrape_TargetReached
    \/ Scrape_NoNewLinks
    \/ Scrape_FoundLinks
    \/ Scrape_ScrollOk
    \/ Scrape_ScrollFails
    \/ Scrape_ForEnd
    \/ Scrape_ForBreak
    \/ Scrape_SkipLink
    \/ Scrape_ProcessLink
    \/ Scrape_Final
MainStep == Main_NextCity \/ Main_GotoFails \/ Main_Done

\* the same with the coroutine scheduled fairly: every await of scrape_city
\* and of the city loop returns or raises (they carry timeouts); the page's
\* responses arrive whenever they arrive
ScraperFairSpec == ScraperSpec /\ WF_vars(ScrapeStep) /\ WF_vars(MainStep)

\* one call of a retry wrapper
RetryNext ==
    \/ Retry_Call
    \/ Retry_AttemptOk
    \/ Retry_AttemptFails
    \/ Retry_Exhausted

RetrySpec == Init /\ [][RetryNext]_vars

\* one call of _parse_offers_response
OffersNext == Offers_Parse

OffersSpec == Init /\ [][OffersNext]_vars

\* one run of fetch_min_prices_task
FetchNext ==
    \/ FTask_Start
    \/ FTask_Count
    \/ FTask_Poll
    \/ Fetch_CatalogAttemptFails
    \/ Fetch_CatalogOk
    \/ Fetch_CatalogRaises
    \/ Fetch_CatalogExhausted
    \/ Fetch_PricingAttemptFails
    \/ Fetch_PricingOk
    \/ Fetch_PricingRaises
    \/ Fetch_PricingExhausted
    \/ FTask_Save
    \/ FTask_Progress
    \/ FTask_Finish

FetchSpec == Init /\ [][FetchNext]_vars

\* the same run with a failing update and cancellation writes interleaved
CancelNext ==
    \/ FetchNext
    \/ FTask_Raises
    \/ FTask_Except
    \/ Cancel_Store

CancelSpec == Init /\ [][CancelNext]_vars

\* one run of the analyzer pipeline
AnalyzerNext ==
    \/ Ana_Import
    \/ Ana_ImportFails
    \/ Ana_GenerateTitle
    \/ Ana_FetchPrices
    \/ Ana_OrganizeRaises
    \/ Ana_Export
    \/ Ana_Return
    \/ Ana_InitRaises

AnalyzerSpec == Init /\ [][AnalyzerNext]_vars

\* one listing's two fragments, delivered in both orders
FragNext ==
    \/ Frag_Setup
    \/ PD_Photos
    \/ PD_Details
    \/ DP_Details
    \/ DP_Photos

FragSpec == Init /\ [][FragNext]_vars

\* one Run with its log readers
LogNext ==
    \/ Log_Create
    \/ Log_CreateDelayLogsFails
    \/ Log_Abort
    \/ LTask_Start
    \/ LTask_Received
    \/ LTask_Started
    \/ LPipeline_Log
    \/ LTask_Success
    \/ LTask_LogCompleted
    \/ LTask_LogFailed
    \/ LTask_Failure
    \/ LTask_Killed
    \/ \E r \in Readers : Reader(r)

LogSpec == Init /\ [][LogNext]_vars

\* the same with every reader scheduled fairly: a queued stream_logs task is
\* started and a polling one keeps polling
LogFairSpec == LogSpec /\ \A r \in Readers : WF_vars(Reader(r))

(***************************************************************************)
(* Claims about the Run lifecycle (checked under Spec)                     *)
(***************************************************************************)

\* C1: once REVOKED is stored for the Run, no later step stores RECEIVED,
\* STARTED or SUCCESS for it.
C1_RevokedStays ==
    [][db.status = "REVOKED" =>
         db'.status \notin {"RECEIVED", "STARTED", "SUCCESS"}]_vars

\* C2: a results request always obtains a complete snapshot, never an
\* empty, truncated or unparsable file.
C2_ReaderSeesSnapshot == readerGot # Unparsable

\* C3: the stored finished_at is non-null exactly when the stored status is
\* SUCCESS, FAILURE or REVOKED.
C3_FinishedIffTerminal == (db.finished_at # NULL) <=> (db.status \in Terminal)

\* position of a status in PENDING -> RECEIVED -> STARTED -> SUCCESS|FAILURE
Rank(st) ==
    CASE st = "ABSENT" -> 0
      [] st = "PENDING" -> 1
      [] st = "RECEIVED" -> 2
      [] st = "STARTED" -> 3
      [] OTHER -> 4

\* C4: with no abort request, no step stores a status earlier in the order
\* PENDING, RECEIVED, STARTED, SUCCESS|FAILURE than the one already stored.
C4_StatusMovesForward ==
    [][(aborts = 0 /\ aborts' = 0) => Rank(db'.status) >= Rank(db.status)]_vars

\* C5: the step by which the task re-raises a pipeline exception leaves the
\* Run stored with FAILURE, the exception text and finished_at; with no
\* abort request the Run is not left in RECEIVED or STARTED afterwards.
C5_FailureStoredBeforeReraise ==
    /\ [][(wpc = "w_except" /\ wpc' = "w_raised") =>
            /\ db'.status = "FAILURE"
            /\ db'.error_message = wExc
            /\ db'.finished_at # NULL]_vars
    /\ []((wpc = "w_raised" /\ aborts = 0) =>
            db.status \notin {"RECEIVED", "STARTED"})

\* witness of C5: the pipeline raised between two cities, after a checkpoint,
\* and the task has re-raised with the failure stored
C5_Witness ==
    /\ wpc = "w_raised"
    /\ aborts = 0
    /\ wExc = PageError
    /\ ckpt >= 1
    /\ db.status = "FAILURE"
    /\ db.error_message = PageError

InvalidSession == {"no_cookies", "expired"}

\* C9: with an invalid session no city is scraped and nothing is
\* checkpointed, the task goes out by the exception and stores FAILURE with
\* a non-empty message; SUCCESS is never stored.
C9_InvalidSessionFailsRun ==
    /\ [](session \in InvalidSession =>
            /\ cityNo = 0
            /\ ckpt = 0
            /\ file = Encode(<<>>)
            /\ wpc \in {"w_except", "w_raised", "w_killed"}
            /\ wExc # ""
            /\ db.status # "SUCCESS")
    /\ [][(session \in InvalidSession /\ wpc = "w_except" /\ wpc' = "w_raised") =>
            /\ db'.status = "FAILURE"
            /\ db'.error_message = LoginError(session)
            /\ db'.error_message # ""]_vars

\* witness of C9: the cookies had expired and the task has ended in FAILURE
C9_Witness ==
    /\ session = "expired"
    /\ wpc = "w_raised"
    /\ db.status = "FAILURE"
    /\ db.error_message = CookiesExpired
    /\ ckpt = 0

\* C10: once the Run is cancelled and its worker terminated, the result file
\* holds exactly the last snapshot that was completely written.
C10_CancelledResultIntact ==
    (db.status = "REVOKED" /\ wpc = "w_killed") => file = committed

(***************************************************************************)
(* Claims about the Facebook collector (checked under ScraperSpec)         *)
(***************************************************************************)

\* C6: across the cities of one Run a listing appears at most once: no link
\* is stored under two different cities.
C6_AtMostOnceAcrossCities ==
    \A c1 \in Cities, c2 \in Cities :
        c1 # c2 =>
            \A k1 \in 1 .. Len(all_results[c1]), k2 \in 1 .. Len(all_results[c2]) :
                all_results[c1][k1].link # all_results[c2][k2].link

\* the five required fields of a record are all non-empty
AllRequiredFields(r) ==
    /\ r.link # ""
    /\ r.title # ""
    /\ r.description # ""
    /\ r.price # ""
    /\ r.price # PyNone
    /\ r.image_urls # <<>>

\* C7: every record clear_items returns, and every record stored under a
\* city, has a non-empty link, title, description and price and an image.
C7_EmittedRecordsComplete ==
    /\ \A k \in 1 .. Len(lastDrain) : AllRequiredFields(lastDrain[k])
    /\ \A c \in Cities :
           \A k \in 1 .. Len(all_results[c]) : AllRequiredFields(all_results[c][k])

ValidHint(text) ==
    LET payload == JsonLoads(AfterFirstColon(text))
    IN  /\ payload.type = "object"
        /\ payload.has
        /\ payload.key = "refillIn"
        /\ payload.val.kind = "num"

HintOf(text) == JsonLoads(AfterFirstColon(text)).val.n

\* the wrappers that look for a wait-hint
HintWrappers == {"facebook", "analyzer"}

\* a failed attempt has been handled
AttemptFailed == retry_last.k >= 0

\* b = min(max_backoff, base * 2^k) of the last failed attempt
CappedBase == MinOf(retry_cfg.backoff_max, retry_cfg.backoff_base * Pow2(retry_last.k))

\* the last failed attempt carried no hint its wrapper uses
NoUsableHint == retry_wrapper = "sp_api" \/ ~ValidHint(retry_last.text)

\* C11: in the wrappers that parse wait-hints, a failed attempt whose error
\* text carries no valid hint lets no exception escape: the wrapper waits a
\* jittered exponential backoff and goes on.
C11_MalformedHintNeverEscapes ==
    (/\ retry_wrapper \in HintWrappers
     /\ AttemptFailed
     /\ ~ValidHint(retry_last.text))
    => (/\ retry_last.exc = NoException
        /\ retry_pc # "raised"
        /\ 2 * retry_last.wait >= CappedBase
        /\ 2 * retry_last.wait <= 3 * CappedBase)

\* C12: the wait w a wrapper computes for failed attempt k without a usable
\* hint satisfies 0.5*b <= w <= 1.5*b with b = min(max_backoff, base * 2^k).
C12_JitteredBackoffRange ==
    (AttemptFailed /\ NoUsableHint /\ retry_last.exc = NoException)
    => (/\ 2 * retry_last.wait >= CappedBase
        /\ 2 * retry_last.wait <= 3 * CappedBase)

\* witness of C12: a second attempt failed without a hint where base * 2^k
\* is above max_backoff, and the wait computed is above b
C12_Witness ==
    /\ retry_wrapper = "facebook"
    /\ AttemptFailed
    /\ retry_last.k >= 1
    /\ NoUsableHint
    /\ retry_last.exc = NoException
    /\ retry_cfg.backoff_base * Pow2(retry_last.k) > retry_cfg.backoff_max
    /\ retry_last.wait > CappedBase

\* C13: without a hint the wait a wrapper computes never exceeds max_backoff.
C13_WaitCappedAtMax ==
    (AttemptFailed /\ NoUsableHint /\ retry_last.exc = NoException)
    => retry_last.wait <= retry_cfg.backoff_max

\* C14: a wrapper invokes the operation at most `attempts` times, returns
\* (True, value, None) at the first success, and when every attempt failed
\* returns (False, None, e) with e the text of the last failure.
C14_AttemptsAndResult ==
    /\ retry_calls <= retry_cfg.attempts
    /\ (retry_result.kind = "return" /\ retry_result.ok)
       => (/\ retry_result = Returned(TRUE, "value", NoError)
           /\ retry_calls = retry_attempt + 1)
    /\ (retry_pc \in {"returned", "raised"} /\ ~retry_result.ok)
       => (/\ retry_calls = retry_cfg.attempts
           /\ retry_result = Returned(FALSE, "None", retry_last.text))

\* C15: a failed attempt whose error carries a numeric refillIn hint of h
\* milliseconds makes the wrapper wait exactly h + 5000 milliseconds.
C15_HintWaitExact ==
    (/\ retry_wrapper \in HintWrappers
     /\ AttemptFailed
     /\ ValidHint(retry_last.text))
    => (/\ retry_last.exc = NoException
        /\ retry_last.wait = HintOf(retry_last.text) + 5000)

(***************************************************************************)
(* Claims about _parse_offers_response (checked under OffersSpec)          *)
(***************************************************************************)

Range(f) == {f[i] : i \in DOMAIN f}

\* the 'new' entries of a summary collection that carry a price
PricedNew(entries) ==
    {x \in Range(entries) : Lower(x.condition) = "new" /\ x.LandedPrice.has}

\* the landed prices of the 'new' entries of the three collections
NewLandedPrices(payload) ==
    {e.LandedPrice.Amount : e \in PricedNew(payload.LowestPrices)}
    \cup {e.LandedPrice.Amount : e \in PricedNew(payload.BuyBoxPrices)}
    \cup {Landed(o) : o \in {x \in Range(payload.Offers) : Lower(x.SubCondition) = "new"}}

\* a 'new' entry exists in one of the three collections
HasNewEntry(payload) ==
    \/ \E x \in Range(payload.LowestPrices) : Lower(x.condition) = "new"
    \/ \E x \in Range(payload.BuyBoxPrices) : Lower(x.condition) = "new"
    \/ \E x \in Range(payload.Offers) : Lower(x.SubCondition) = "new"

SetMin(S) == CHOOSE x \in S : \A y \in S : x <= y

\* the positions of the 'new' offers whose landed price is the min_price
\* the function returned
MatchingOffers(payload, parsed) ==
    {i \in DOMAIN payload.Offers :
        /\ parsed.found
        /\ Lower(payload.Offers[i].SubCondition) = "new"
        /\ Landed(payload.Offers[i]) = parsed.amount}

\* the offers of the example: 19.99 new, 17.50 used, 19.99 new buy-box
ExampleOffers ==
    WithSellers(<<Offer("new", <<19990, 0>>, FALSE),
                  Offer("used", <<17500, 0>>, FALSE),
                  Offer("new", <<19990, 0>>, TRUE)>>)

\* C16: when 'new' offers have the minimum landed price, cheapest_offer is one
\* of them: a buy-box winner if any of them is one, otherwise the first in
\* response order; the example's offers give 19.99 and the buy-box offer.
C16_CheapestOfferSelection ==
    offers_pc = "parsed" =>
        LET offers == offers_payload.Offers
            matching == MatchingOffers(offers_payload, offers_parsed)
            winners == {i \in matching : offers[i].IsBuyBoxWinner}
        IN  /\ matching # {} =>
                 /\ \E i \in matching :
                        offers_parsed.cheapest_offer = OfferData(TheAsin, offers[i])
                 /\ winners # {} =>
                        \E i \in winners :
                            offers_parsed.cheapest_offer = OfferData(TheAsin, offers[i])
                 /\ winners = {} =>
                        offers_parsed.cheapest_offer =
                            OfferData(TheAsin, offers[SetMin(matching)])
            /\ (/\ offers = ExampleOffers
                /\ offers_payload.LowestPrices = <<>>
                /\ offers_payload.BuyBoxPrices = <<>>)
               => (/\ offers_parsed.amount = 19990
                   /\ offers_parsed.cheapest_offer = OfferData(TheAsin, offers[3]))

\* witness of C16: the example's offers have been parsed and the third offer,
\* the buy-box winner, was selected over the first
C16_Witness ==
    /\ offers_pc = "parsed"
    /\ offers_payload.Offers = ExampleOffers
    /\ offers_payload.LowestPrices = <<>>
    /\ offers_payload.BuyBoxPrices = <<>>
    /\ MatchingOffers(offers_payload, offers_parsed) = {1, 3}
    /\ offers_parsed.cheapest_offer.offer_url = OfferUrl(TheAsin, SellerIdAt(3))

\* C17: min_price is the minimum landed price over the 'new' entries of
\* LowestPrices, BuyBoxPrices and Offers together, whatever the entries of
\* other conditions are, and it is None exactly when there is no 'new' entry.
C17_MinPriceOverNewEntries ==
    offers_pc = "parsed" =>
        LET prices == NewLandedPrices(offers_payload)
        IN  /\ offers_parsed.found <=> HasNewEntry(offers_payload)
            /\ ~offers_parsed.found => offers_parsed.min_price = PyNone
            /\ offers_parsed.found =>
                   (prices # {} /\ offers_parsed.amount = SetMin(prices))

(***************************************************************************)
(* Claims about fetch_min_prices_task (checked under FetchSpec)            *)
(***************************************************************************)

\* the merged dict holds exactly the fields of the catalog lookup's result
\* when that lookup succeeded, and none of them when it failed
CatalogFieldsMerged(s) ==
    IF s.lookups.catalog_outcome = "ok"
    THEN /\ CatalogKeys \subseteq s.merged.keys
         /\ s.merged.title = s.lookups.catalog_data.title
         /\ s.merged.images = s.lookups.catalog_data.images
         /\ s.merged.product_url = s.lookups.catalog_data.product_url
    ELSE CatalogKeys \cap s.merged.keys = {}

\* the same for the pricing lookup
PricingFieldsMerged(s) ==
    IF s.lookups.pricing_outcome = "ok"
    THEN /\ PricingKeys \subseteq s.merged.keys
         /\ s.merged.min_price = s.lookups.pricing_data.data.min_price
         /\ s.merged.amount = s.lookups.pricing_data.data.amount
         /\ s.merged.currency = s.lookups.pricing_data.data.currency
         /\ s.merged.cheapest_offer = s.lookups.pricing_data.data.cheapest_offer
    ELSE PricingKeys \cap s.merged.keys = {}

\* C18: both lookups are attempted for every ASIN whatever the other one did,
\* and the merged data holds the asin, every field of each lookup that
\* succeeded and no field of one that failed.
C18_BothLookupsAndMerge ==
    /\ fetch_pc = "f_merge" => (lookups.catalog >= 1 /\ lookups.pricing >= 1)
    /\ \A k \in 1..Len(saved) :
           /\ saved[k].lookups.catalog >= 1
           /\ saved[k].lookups.pricing >= 1
           /\ "asin" \in saved[k].merged.keys
           /\ saved[k].merged.asin = asins[k]
           /\ CatalogFieldsMerged(saved[k])
           /\ PricingFieldsMerged(saved[k])

\* witness of C18: the catalog lookup failed on both attempts, the pricing
\* lookup was still made and its fields alone were merged with the asin
C18_Witness ==
    \E k \in 1..Len(saved) :
        /\ saved[k].lookups.catalog_outcome = "exhausted"
        /\ saved[k].lookups.catalog = LOOKUP_MAX_ATTEMPTS
        /\ saved[k].lookups.pricing_outcome = "ok"
        /\ saved[k].merged.keys = {"asin"} \cup PricingKeys
        /\ saved[k].merged.amount = 19990

\* C19: with no cancellation the ASINs are saved in list order, each once,
\* processed_asins takes the values 0, 1, ..., n and never exceeds
\* total_asins, and the task ends SUCCESS with processed_asins = total_asins.
C19_OrderedProgressToSuccess ==
    /\ Len(saved) <= Len(asins)
    /\ \A k \in 1..Len(saved) : saved[k].merged.asin = asins[k]
    /\ \A i \in 1..Len(progress) : progress[i] = i - 1
    /\ fetch_pc \notin {"f_queued", "f_count"} =>
           /\ task_row.total_asins = Len(asins)
           /\ task_row.processed_asins <= task_row.total_asins
           /\ task_row.processed_asins = progress[Len(progress)]
    /\ fetch_pc = "f_loop" => Len(saved) = task_row.processed_asins
    /\ fetch_pc = "f_done" =>
           /\ task_row.status = "SUCCESS"
           /\ task_row.processed_asins = task_row.total_asins
           /\ Len(saved) = Len(asins)
           /\ Len(progress) = Len(asins) + 1

\* witness of C19: a finished task of two ASINs whose second ASIN had its
\* pricing lookup fail on every attempt
C19_Witness ==
    /\ fetch_pc = "f_done"
    /\ Len(asins) = 2
    /\ Len(saved) = 2
    /\ saved[2].lookups.pricing_outcome = "exhausted"
    /\ saved[2].lookups.catalog_outcome = "ok"
    /\ task_row.status = "SUCCESS"
    /\ progress = <<0, 1, 2>>

(***************************************************************************)
(* Claims about the analyzer pipeline (checked under AnalyzerSpec)         *)
(***************************************************************************)

C25_AbortLeavesFinishedRun ==
    [][(apc # "a_idle" /\ apc' = "a_idle" /\ is_finished(db)) =>
          /\ db'.status = db.status
          /\ db'.finished_at = db.finished_at
          /\ db'.error_message = db.error_message]_vars

\* C26: a non-empty stored error_message implies the stored status FAILURE.
C26_ErrorOnlyOnFailure ==
    (db.status # "ABSENT" /\ db.error_message # "") => db.status = "FAILURE"

(***************************************************************************)
(* Claims about cancelling a min-price task (checked under CancelSpec)     *)
(***************************************************************************)

\* C24: once CANCELLED is stored for a min-price task, every later step
\* leaves the stored status CANCELLED: the worker never stores RUNNING,
\* SUCCESS or FAILURE over it.
C24_CancelledStays ==
    [][task_row.status = "CANCELLED" => task_row'.status = "CANCELLED"]_vars

(***************************************************************************)
(* Claims about log streaming (checked under LogSpec and LogFairSpec)      *)
(***************************************************************************)
\* the events a step adds to the channel
SentNow == SubSeq(channel', Len(channel) + 1, Len(channel'))

FinishedSent(events) == \E i \in 1..Len(events) : events[i].kind = "finished"

LogsSent(events) == \E i \in 1..Len(events) : events[i].kind = "logs"

\* C21: the channel of a Run carries one finished marker at most, the marker
\* is sent only while the stored status is terminal, and no logs event is
\* sent on the channel once a marker has been sent.
C21_OneFinishedMarkerLast ==
    [][/\ FinishedSent(SentNow) =>
              log_db.status \in Terminal /\ ~FinishedSent(channel)
       /\ LogsSent(SentNow) => ~FinishedSent(channel)]_vars

\* the lines reader r has emitted in logs events
EmittedBy(r) ==
    {n \in 1..log_file :
        \E i \in 1..Len(channel) :
            /\ channel[i].kind = "logs"
            /\ channel[i].reader = r
            /\ channel[i].lo <= n
            /\ n <= channel[i].hi}

\* C22: a reader that has sent its finished marker has emitted every line
\* written to the log file since it started.
C22_NoTailLost ==
    \A r \in Readers :
        reader_pc[r] = "stopped" =>
            \A n \in (reader_start[r] + 1)..log_file : n \in EmittedBy(r)

\* C23: if the stored status becomes terminal and stays terminal, every
\* reader that was started eventually sends its final event and stops, under
\* fair scheduling of the readers.
C23_ReadersStop ==
    <>[](log_db.status \in Terminal) =>
        <>[](\A r \in Readers : reader_pc[r] \in {"none", "stopped"})

\* witness of C23: a Run finished by FAILURE whose two readers have both sent
\* their finished marker and stopped
C23_Witness ==
    /\ log_db.status = "FAILURE"
    /\ log_wpc = "w_raised"
    /\ \A r \in Readers :
          /\ reader_pc[r] = "stopped"
          /\ \E i \in 1..Len(channel) : channel[i] = FinishedEvent(r)

(***************************************************************************)
(* Claims about the collector's records and stall counter (checked under   *)
(* ScraperSpec)                                                            *)
(***************************************************************************)
\* the fields of record `old` that hold data still hold data in record `new`
KeepsFields(old, new) ==
    /\ old.link \notin {"", PyNone} => new.link \notin {"", PyNone}
    /\ old.title \notin {"", PyNone} => new.title \notin {"", PyNone}
    /\ old.description \notin {"", PyNone} => new.description \notin {"", PyNone}
    /\ old.price \notin {"", PyNone} => new.price \notin {"", PyNone}
    /\ old.image_urls # <<>> => new.image_urls # <<>>

\* C27: while a key stays in items_dict, no step makes a non-empty field of
\* its record empty again or replaces the record by a blank one.
C27_FieldsNeverBlanked ==
    [][\A i \in ListingIds :
          (HasKey(items_dict, i) /\ HasKey(items_dict', i)) =>
              KeepsFields(items_dict[KeyIndex(items_dict, i)],
                          items_dict'[KeyIndex(items_dict', i)])]_vars

\* the links stored under a city
LinksOf(results, c) == {results[c][k].link : k \in 1 .. Len(results[c])}

\* C29: a listing stored under a city in one snapshot is stored under that
\* city in every later snapshot and in the final result.
C29_FlushedListingsStay ==
    [][\A c \in Cities : LinksOf(all_results, c) \subseteq LinksOf(all_results', c)]_vars

\* C30: the stall counter starts a unit at 0, grows by one with every
\* discovery that finds no unprocessed candidate, returns to 0 with every
\* discovery that finds one and is changed by nothing else; an empty
\* discovery ends the unit exactly when the counter reaches
\* MAX_NO_NEW_ITEMS_ATTEMPTS and leads to a recovery scroll otherwise.
C30_StallCounter ==
    [][LET discovery == mpc = "s_loop" /\ city_scraped_count < ListingsPerCity
           empty == Unprocessed(api_buffer) = <<>>
       IN  /\ (discovery /\ empty) =>
                  /\ no_new_items_count' = no_new_items_count + 1
                  /\ mpc' = "s_final" <=>
                         no_new_items_count' = MAX_NO_NEW_ITEMS_ATTEMPTS
                  /\ mpc' = "s_scroll" <=>
                         no_new_items_count' < MAX_NO_NEW_ITEMS_ATTEMPTS
           /\ (discovery /\ ~empty) => no_new_items_count' = 0 /\ mpc' = "s_for"
           /\ mpc = "s_start" => no_new_items_count' \in {0, no_new_items_count}
           /\ (~discovery /\ mpc # "s_start") =>
                  no_new_items_count' = no_new_items_count]_vars

\* witness of C30: a unit, at its first call, that found a candidate (the
\* counter went back to 0) and then stopped for stalling at the ceiling
C30_Witness ==
    /\ mpc = "s_final"
    /\ no_new_items_count = MAX_NO_NEW_ITEMS_ATTEMPTS
    /\ attempt = 0
    /\ items_dict # <<>>

(***************************************************************************)
(* Claims about the fragment handlers (checked under FragSpec)             *)
(***************************************************************************)

\* C28: for a key whose record exists, delivering the photo fragment and
\* then the detail fragment leaves items_dict as delivering the detail
\* fragment and then the photo fragment does; the record is complete in
\* both orders or in neither.
C28_FragmentsCommute ==
    (frag_npd = 2 /\ frag_ndp = 2) =>
        /\ frag_pd = frag_dp
        /\ IsComplete(frag_pd[KeyIndex(frag_pd, frag_in.id)])
              <=> IsComplete(frag_dp[KeyIndex(frag_dp, frag_in.id)])

\* witness of C28: both orders done for a fresh record with photos and a
\* full detail payload; the record is complete
C28_Witness ==
    /\ frag_npd = 2
    /\ frag_ndp = 2
    /\ frag_in.photos # <<>>
    /\ frag_in.payload = Payload("FOR_SALE_ITEM", "Canon", "", "25")
    /\ IsComplete(frag_pd[KeyIndex(frag_pd, frag_in.id)])
    /\ frag_pd[KeyIndex(frag_pd, frag_in.id)].title = "Canon"
    /\ frag_pd[KeyIndex(frag_pd, frag_in.id)].image_urls = <<"photo.jpg">>

C38_MinPriceIsACarriedPrice ==
    (offers_pc = "parsed" /\ offers_parsed.found) =>
        offers_parsed.amount \in {Round2(p) : p \in NewLandedPrices(offers_payload)}

\* the 'new' offers of a payload, by position
NewOffers(payload) ==
    {i \in DOMAIN payload.Offers : Lower(payload.Offers[i].SubCondition) = "new"}

\* no 'new' offer has the minimum landed price within the tolerance: the
\* minimum came from LowestPrices or BuyBoxPrices
MinimumFromSummary(payload) ==
    /\ MinLanded(payload).landed # Inf
    /\ \A i \in NewOffers(payload) :
          Abs(Landed(payload.Offers[i]) - MinLanded(payload).landed) > Tolerance

\* the first of the 'new' offers with the smallest landed price
FirstCheapestNew(payload) ==
    CHOOSE i \in NewOffers(payload) :
        \A j \in NewOffers(payload) :
            \/ Landed(payload.Offers[i]) < Landed(payload.Offers[j])
            \/ Landed(payload.Offers[i]) = Landed(payload.Offers[j]) /\ i <= j

\* C32: when the minimum came from a summary collection, cheapest_offer is
\* the 'new' offer with the smallest landed price, which is above the
\* minimum (the first of them in response order), never an offer of another
\* condition, and it is null exactly when the payload has no 'new' offer.
C32_FallbackPicksClosestNew ==
    (offers_pc = "parsed" /\ MinimumFromSummary(offers_payload)) =>
        LET new == NewOffers(offers_payload)
            offers == offers_payload.Offers
        IN  /\ new = {} <=> offers_parsed.cheapest_offer = NoOffer
            /\ new # {} =>
                  LET i == FirstCheapestNew(offers_payload)
                  IN  /\ offers_parsed.cheapest_offer = OfferData(TheAsin, offers[i])
                      /\ Landed(offers[i]) > MinLanded(offers_payload).landed
            /\ \A j \in DOMAIN offers :
                  Lower(offers[j].SubCondition) # "new" =>
                      offers_parsed.cheapest_offer # OfferData(TheAsin, offers[j])

\* C32 witness: the minimum 15.00 comes from LowestPrices; a used offer at
\* 17.50 sits between a 'new' offer at 19.99 and a 'new' one at 17.50, and
\* the third offer is returned.
C32_Witness ==
    /\ offers_pc = "parsed"
    /\ MinimumFromSummary(offers_payload)
    /\ offers_payload.LowestPrices = <<PriceEntry("new", 15000)>>
    /\ Len(offers_payload.Offers) = 3
    /\ NewOffers(offers_payload) = {1, 3}
    /\ Landed(offers_payload.Offers[2]) = Landed(offers_payload.Offers[3])
    /\ Landed(offers_payload.Offers[3]) < Landed(offers_payload.Offers[1])
    /\ offers_parsed.cheapest_offer = OfferData(TheAsin, offers_payload.Offers[3])


\* the logs events of reader r, in the order they were sent
LogsEventsOf(r) ==
    SelectSeq(channel, LAMBDA e : e.kind = "logs" /\ e.reader = r)

\* C33: the chunks a reader emits are consecutive, non-empty slices of the
\* log file in file order: the first starts at the reader's start offset,
\* each next one where the one before ended, none reaches past the end of
\* the file, and until the final read the reader's position is the end of
\* the last chunk, so no line is emitted twice or skipped.
C33_ChunksAreConsecutive ==
    \A r \in Readers :
        LET evs == LogsEventsOf(r)
        IN  /\ \A k \in 1..Len(evs) :
                  /\ evs[k].lo = (IF k = 1 THEN reader_start[r] ELSE evs[k - 1].hi) + 1
                  /\ evs[k].lo <= evs[k].hi
                  /\ evs[k].hi <= log_file
            /\ reader_pc[r] = "poll" =>
                  position[r] = (IF evs = <<>> THEN reader_start[r]
                                 ELSE evs[Len(evs)].hi)

\* C33 witness: a stopped reader that emitted two chunks, the second one
\* starting right after the first
C33_Witness ==
    \E r \in Readers :
        /\ reader_pc[r] = "stopped"
        /\ Len(LogsEventsOf(r)) = 2
        /\ LogsEventsOf(r)[2].lo = LogsEventsOf(r)[1].hi + 1


\* C36: the list stored under a city never holds more than listings_per_city
\* records, in any snapshot and in the final result.
C36_CityListWithinTarget ==
    \A c \in Cities : Len(all_results[c]) <= ListingsPerCity


\* C37: when the unit of a city starts (scrape_city is called for it the
\* first time) items_dict holds no record: nothing is left over from the
\* unit of an earlier city, whether it returned or ended with an exception.
C37_UnitStartsClean ==
    (mpc = "s_start" /\ attempt = 0) => items_dict = <<>>


\* C39: a call of scrape_city leaves its while loop: from the loop head it
\* reaches the final flush (target reached or the stall ceiling) or an
\* exception ends the call (the wrapper calls again or gives up); and every
\* step that marks a candidate processed marks one that was not, no step
\* other than a feed response ever making a candidate unprocessed again.
C39_LoopExits ==
    /\ (mpc \in {"s_loop", "s_for", "s_scroll"}) ~>
           (mpc \in {"s_final", "s_start", "m_next_city"})
    /\ [][/\ (Scrape_ForBreak \/ Scrape_SkipLink \/ Scrape_ProcessLink) =>
                Len(Unprocessed(api_buffer')) = Len(Unprocessed(api_buffer)) - 1
          /\ ~Handle_Feed =>
                Len(Unprocessed(api_buffer')) <= Len(Unprocessed(api_buffer))]_vars


\* C39 witness: every candidate of the feed was delivered and marked
\* processed, and the loop was left with the target reached
C39_Witness ==
    /\ mpc = "s_final"
    /\ feedLeft = 0
    /\ city_scraped_count >= ListingsPerCity
    /\ Unprocessed(api_buffer) = <<>>


C35_PrepFailureStoresFailure ==
    [][(wpc \in {"w_queued", "w_loaded"} /\ wpc' = "w_raised") =>
           (db'.status = "FAILURE" /\ db'.error_message # "")]_vars

\* the pipeline ran to its end: it logged in and took every city
PipelineReturned == session = "valid" /\ cityNo = NumCities

\* C40: whenever the worker stores SUCCESS, a registered pipeline has run
\* and returned its result; a Run whose script names no known pipeline does
\* not get SUCCESS.
C40_SuccessOnlyAfterPipeline ==
    [][(db'.status = "SUCCESS" /\ db.status # "SUCCESS" /\ wpc' = "w_done") =>
           PipelineReturned]_vars

====
